---- MODULE Spec2Model ----
(***************************************************************************)
(* Model of the timeline-atlas client's event admission pipeline:          *)
(* the temporal resolver (models/event.ts), the importance threshold and   *)
(* capacity functions, the concurrency-bounded selector and the selection  *)
(* pipeline (timeline/event-to-timeline-item.ts).                          *)
(*                                                                         *)
(* Representation.                                                         *)
(*  - A JavaScript string is a sequence of one-character strings.          *)
(*  - `T | null` is a sequence of length 0 (null/undefined) or 1.          *)
(*  - A Date is its time value.  Time values and spans are counted in      *)
(*    ticks of 6 hours (21 600 000 ms), the largest unit in which both a   *)
(*    day (4) and the code's year of 365.25 days (1461) are whole numbers; *)
(*    the component parser only produces midnights, so nothing is rounded. *)
(*  - An importance score is a whole number of tenths.                     *)
(***************************************************************************)
EXTENDS Integers, Sequences, FiniteSets, TLC

VARIABLES
    op,             \* the function being called
    done,           \* whether the call has returned
    timeValue,      \* argument of parseEventTime: EventTimeValue | null
    parsed,         \* result of parseEventTime: Date | null
    event,          \* argument of eventStartDate / eventEndDate / timeRangeForEvent
    startDate,      \* result of eventStartDate(event)
    endDate,        \* result of eventEndDate(event)
    timeRange,      \* result of timeRangeForEvent(event)
    curveIn,        \* two visible spans (s1 <= s2, s1 possibly not supplied)
                    \* and minVisibleEvents
    curveOut,       \* the threshold and the capacity at each of the two spans
    events,         \* argument events: EventApi[]
    visibleSpanMs,  \* argument visibleSpanMs?: number
    visibleWindow,  \* argument visibleWindow?: VisibleWindow
    options,        \* argument options?: Partial<TimelineDisplayOptions>
    locals,         \* eventsToTimelineItems: its constants after the call
    selected,       \* result of selectEventsUpToMaxConcurrent: EventApi[]
    items,          \* result of eventsToTimelineItems: TimelineItem[]
    mapBounds,      \* TimelineComponent.mapBounds: MapBounds | null
    filtered,       \* result of eventsForTimeline(), null before a call
    currentItemIds, \* TimelineComponent.currentItemIds
    widgetItems,    \* the items last given to timeline.setItems, null if none
    timers,         \* the applySelection timers scheduled and not yet run
    remembered,     \* an earlier call of the pipeline: its arguments and result
    serverPages,    \* the pages the server holds: [results, next]
    getEventsArgs,  \* arguments of getEvents: [categoryId, eventTypeId]
    httpRequests,   \* the requests issued by one subscription, in order
    httpPending,    \* the positions in httpRequests not yet answered
    acc,            \* the accumulator of reduce
    emitted,        \* the lists the observable of getEvents has emitted
    subscription,   \* "none", "active", "complete" or "error"
    appEvents,      \* App.events
    selectedEventId,\* App.selectedEventId
    loadRequestId,  \* App.loadRequestId
    loads,          \* the calls of loadEvents, by requestId: the filters, what
                    \* has come of the subscription, and the events it emitted
    appDestroyed,   \* whether App's DestroyRef has fired
    timeline,       \* TimelineComponent.timeline: Timeline | null
    widget,         \* the vis-timeline widget: "none", "created" or "destroyed"
    listeners,      \* the events of the widget with a handler registered
    categories,     \* TimelineComponent.categories
    highlightedEventId, \* TimelineComponent.highlightedEventId
    widgetGroups,   \* the groups last given to timeline.setGroups
    widgetSelection,\* the ids last given to timeline.setSelection
    widgetWindow,   \* the window of the widget, null before it is created
    destroyed,      \* whether ngOnDestroy has run
    calledAfterDestroy \* whether a method of the destroyed widget was called

resolverVars == <<timeValue, parsed, event, startDate, endDate, timeRange>>

curveVars == <<curveIn, curveOut>>

pipelineIn == <<events, visibleSpanMs, visibleWindow, options>>

pipelineVars == <<pipelineIn, locals, selected, items>>

componentVars == <<mapBounds, filtered, currentItemIds, widgetItems, timers>>

serviceVars == <<serverPages, getEventsArgs, httpRequests, httpPending, acc, emitted,
                 subscription>>

appVars == <<appEvents, selectedEventId, loadRequestId, loads, appDestroyed>>

widgetVars ==
    <<timeline, widget, listeners, categories, highlightedEventId, widgetGroups,
      widgetSelection, widgetWindow, destroyed, calledAfterDestroy>>

clientVars == <<remembered, serviceVars, appVars, widgetVars>>

vars == <<op, done, resolverVars, curveVars, pipelineVars, componentVars, clientVars>>

----------------------------------------------------------------------------
(* null / undefined and optional values *)

Null == <<>>

Some(x) == <<x>>

IsNull(x) == x = Null

Val(x) == x[1]

\* a ?? b
Coalesce(a, b) == IF IsNull(a) THEN b ELSE a

Max(a, b) == IF a >= b THEN a ELSE b

Min(a, b) == IF a <= b THEN a ELSE b

----------------------------------------------------------------------------
(* Strings *)

UNICODE_MINUS == "u2212"

Digits == {"0", "1", "2", "3", "4", "5", "6", "7", "8", "9"}

DigitVal(c) ==
    CASE c = "0" -> 0 [] c = "1" -> 1 [] c = "2" -> 2 [] c = "3" -> 3
      [] c = "4" -> 4 [] c = "5" -> 5 [] c = "6" -> 6 [] c = "7" -> 7
      [] c = "8" -> 8 [] c = "9" -> 9

IsDigitAt(s, i) == i >= 1 /\ i <= Len(s) /\ s[i] \in Digits

\* String.prototype.replace(UNICODE_MINUS, '-'): the first occurrence only.
ReplaceFirstMinus(s) ==
    IF \E i \in 1..Len(s) : s[i] = UNICODE_MINUS
    THEN LET k == CHOOSE i \in 1..Len(s) :
                      /\ s[i] = UNICODE_MINUS
                      /\ \A j \in 1..(i - 1) : s[j] # UNICODE_MINUS
         IN [i \in 1..Len(s) |-> IF i = k THEN "-" ELSE s[i]]
    ELSE s

\* parseInt(str, 10) of an optional '-' followed by digits.
RECURSIVE DigitsToInt(_)
DigitsToInt(s) ==
    IF Len(s) = 0 THEN 0
    ELSE 10 * DigitsToInt(SubSeq(s, 1, Len(s) - 1)) + DigitVal(s[Len(s)])

ParseInt(s) ==
    IF Len(s) >= 1 /\ s[1] = "-" THEN 0 - DigitsToInt(Tail(s)) ELSE DigitsToInt(s)

\* The two decimal digits of k in 0..99.
TwoDigits(k) ==
    LET d == <<"0", "1", "2", "3", "4", "5", "6", "7", "8", "9">>
    IN <<d[(k \div 10) + 1], d[(k % 10) + 1]>>

\* The three decimal digits of k in 0..999.
ThreeDigits(k) == Tail(TwoDigits(k \div 100)) \o TwoDigits(k % 100)

\* The four decimal digits of k in 0..9999.
FourDigits(k) == TwoDigits(k \div 100) \o TwoDigits(k % 100)

\* The white space String.prototype.trim removes, as far as the titles below
\* hold it.
WhiteSpace == {" ", "\t", "\n"}

\* The first and the last position of s holding no white space.
FirstInk(s) ==
    CHOOSE i \in 1..Len(s) :
        s[i] \notin WhiteSpace /\ \A j \in 1..(i - 1) : s[j] \in WhiteSpace

LastInk(s) ==
    CHOOSE i \in 1..Len(s) :
        s[i] \notin WhiteSpace /\ \A j \in (i + 1)..Len(s) : s[j] \in WhiteSpace

\* String.prototype.trim
Trim(s) ==
    IF \A i \in 1..Len(s) : s[i] \in WhiteSpace THEN <<>>
    ELSE SubSeq(s, FirstInk(s), LastInk(s))

\* text?.trim()
TrimOptional(text) == IF IsNull(text) THEN Null ELSE Some(Trim(Val(text)))

\* An optional string is truthy: neither undefined nor ''.
Truthy(text) == ~IsNull(text) /\ Len(Val(text)) > 0

\* String(n) of an integer n.
RECURSIVE NatToString(_)
NatToString(n) ==
    IF n < 10 THEN Tail(TwoDigits(n))
    ELSE NatToString(n \div 10) \o Tail(TwoDigits(n % 10))

NumberToString(n) == IF n < 0 THEN <<"-">> \o NatToString(0 - n) ELSE NatToString(n)

----------------------------------------------------------------------------
(* Date arithmetic of ECMAScript (proleptic Gregorian calendar, UTC) *)

\* One day: MIN_SPAN_MS = 24 * 60 * 60 * 1000 ms, in ticks.
MIN_SPAN_MS == 4

\* Day number (days since 1970-01-01) of the first day of month mn (0..11)
\* of year y: the t of MakeDay with YearFromTime(t) = y, MonthFromTime(t) = mn.
DayOfMonthStart(y, mn) ==
    LET yy  == IF mn <= 1 THEN y - 1 ELSE y
        era == yy \div 400
        yoe == yy - era * 400
        mp  == IF mn >= 2 THEN mn - 2 ELSE mn + 10
        doy == (153 * mp + 2) \div 5
        doe == yoe * 365 + (yoe \div 4) - (yoe \div 100) + doy
    IN era * 146097 + doe - 719468

\* MakeDay(year, month, date): months outside 0..11 carry into the year, the
\* date is an offset from the first of the month.
MakeDay(year, month, date) ==
    LET ym == year + (month \div 12)
        mn == month % 12
    IN DayOfMonthStart(ym, mn) + date - 1

\* new Date(0); setUTCFullYear(year, month, day); setUTCHours(0, 0, 0, 0)
DateFromYMD(year, month, day) == MakeDay(year, month, day) * MIN_SPAN_MS

\* Date.prototype.getUTCFullYear: YearFromTime.
GetUTCFullYear(t) ==
    LET z   == (t \div MIN_SPAN_MS) + 719468
        era == z \div 146097
        doe == z - era * 146097
        yoe == (doe - (doe \div 1460) + (doe \div 36524) - (doe \div 146096)) \div 365
        doy == doe - (365 * yoe + (yoe \div 4) - (yoe \div 100))
        mp  == (5 * doy + 2) \div 153
    IN yoe + era * 400 + (IF mp >= 10 THEN 1 ELSE 0)

\* Date.prototype.getUTCMonth (0..11): MonthFromTime.
GetUTCMonth(t) ==
    LET z   == (t \div MIN_SPAN_MS) + 719468
        doe == z % 146097
        yoe == (doe - (doe \div 1460) + (doe \div 36524) - (doe \div 146096)) \div 365
        doy == doe - (365 * yoe + (yoe \div 4) - (yoe \div 100))
        mp  == (5 * doy + 2) \div 153
    IN IF mp < 10 THEN mp + 2 ELSE mp - 10

\* Date.prototype.getUTCDate (1..31): DateFromTime.
GetUTCDate(t) ==
    LET z   == (t \div MIN_SPAN_MS) + 719468
        doe == z % 146097
        yoe == (doe - (doe \div 1460) + (doe \div 36524) - (doe \div 146096)) \div 365
        doy == doe - (365 * yoe + (yoe \div 4) - (yoe \div 100))
        mp  == (5 * doy + 2) \div 153
    IN doy - ((153 * mp + 2) \div 5) + 1

\* One tick in milliseconds.
TICK_MS == 6 * 60 * 60 * 1000

\* A Date to the millisecond: ms milliseconds after the tick.  The dates the
\* resolver makes are at midnight, with ms = 0.
DateAt(tick) == [tick |-> tick, ms |-> 0]

\* The year of Date.prototype.toISOString: four digits for the years 0 to
\* 9999, a sign and six digits for the others.
IsoYear(y) ==
    IF y >= 0 /\ y <= 9999 THEN FourDigits(y)
    ELSE (IF y < 0 THEN <<"-">> ELSE <<"+">>)
             \o TwoDigits((IF y < 0 THEN 0 - y ELSE y) \div 10000)
             \o FourDigits((IF y < 0 THEN 0 - y ELSE y) % 10000)

\* HH:mm:ss.sss of ms milliseconds after midnight.
IsoTime(ms) ==
    TwoDigits(ms \div 3600000) \o <<":">> \o TwoDigits((ms \div 60000) % 60)
        \o <<":">> \o TwoDigits((ms \div 1000) % 60)
        \o <<".">> \o ThreeDigits(ms % 1000)

\* Date.prototype.toISOString: YYYY-MM-DDTHH:mm:ss.sssZ
ToISOString(d) ==
    IsoYear(GetUTCFullYear(d.tick))
        \o <<"-">> \o TwoDigits(GetUTCMonth(d.tick) + 1)
        \o <<"-">> \o TwoDigits(GetUTCDate(d.tick))
        \o <<"T">> \o IsoTime((d.tick % 4) * TICK_MS + d.ms) \o <<"Z">>

\* a.getTime() - b.getTime() in milliseconds: exact for dates at most one
\* tick apart, and two ticks, with the sign, for dates further apart.
DiffMs(a, b) ==
    IF a.tick - b.tick > 1 THEN 2 * TICK_MS
    ELSE IF a.tick - b.tick < 0 - 1 THEN 0 - (2 * TICK_MS)
    ELSE (a.tick - b.tick) * TICK_MS + a.ms - b.ms

----------------------------------------------------------------------------
(* models/event.ts: the temporal resolver *)

\* -? : the length of the sign the pattern takes.
SignLen(s) == IF Len(s) >= 1 /\ s[1] = "-" THEN 1 ELSE 0

\* \d{1,4} : the number of digits, 0 to 4, the pattern takes from position i.
DigitRun(s, i) ==
    IF ~IsDigitAt(s, i) THEN 0
    ELSE IF ~IsDigitAt(s, i + 1) THEN 1
    ELSE IF ~IsDigitAt(s, i + 2) THEN 2
    ELSE IF ~IsDigitAt(s, i + 3) THEN 3
    ELSE 4

\* -(\d{2}) at position j
HasTwoDigitField(s, j) ==
    j <= Len(s) /\ s[j] = "-" /\ IsDigitAt(s, j + 1) /\ IsDigitAt(s, j + 2)

\* The groups of a match whose year ends before position j.
MatchGroups(s, j) ==
    [year  |-> SubSeq(s, 1, j - 1),
     month |-> IF HasTwoDigitField(s, j) THEN Some(SubSeq(s, j + 1, j + 2)) ELSE Null,
     day   |-> IF HasTwoDigitField(s, j) /\ HasTwoDigitField(s, j + 3)
               THEN Some(SubSeq(s, j + 4, j + 5)) ELSE Null]

\* The match of a year of n digits from position i.
MatchYear(s, i, n) == IF n = 0 THEN Null ELSE Some(MatchGroups(s, i + n))

\* normalized.match(/^(-?\d{1,4})(?:-(\d{2})(?:-(\d{2}))?)?/): the groups
\* m[1], m[2], m[3] (Null when the group did not take part), or Null.
MatchDatePrefix(s) == MatchYear(s, 1 + SignLen(s), DigitRun(s, 1 + SignLen(s)))

\* new Date(normalized) for a string the pattern rejected.  The model's
\* inputs reach it only with strings that hold no digit, for which every
\* engine yields an Invalid Date.
DateParseFallback(s) == Null

\* Variant: the date is built with Date.UTC, which reads the years 0..99 as
\* 1900..1999.
DateOfYMD_DateUTC(year, month, day) ==
    DateFromYMD(IF year >= 0 /\ year <= 99 THEN 1900 + year ELSE year, month, day)

\* d.setUTCFullYear(year, month, day) on new Date(0), then setUTCHours(0, 0, 0, 0)
DateOfYMD(year, month, day) == DateFromYMD(year, month, day)

\* Variant: the month is not brought to the range 0..11.
DateOfMatch_MonthOneBased(m) ==
    DateOfYMD(ParseInt(m.year),
              IF ~IsNull(m.month) THEN ParseInt(Val(m.month)) ELSE 0,
              IF ~IsNull(m.day) THEN ParseInt(Val(m.day)) ELSE 1)

\* The date of the groups m of a match.
DateOfMatch(m) ==
    DateOfYMD(ParseInt(m.year),
              IF ~IsNull(m.month) THEN ParseInt(Val(m.month)) - 1 ELSE 0,
              IF ~IsNull(m.day) THEN ParseInt(Val(m.day)) ELSE 1)

\* The result for the normalized string and its match m.
ParseNormalized(normalized, m) ==
    IF ~IsNull(m) THEN Some(DateOfMatch(Val(m))) ELSE DateParseFallback(normalized)

parseEventTimeValue(value) ==
    ParseNormalized(ReplaceFirstMinus(value), MatchDatePrefix(ReplaceFirstMinus(value)))

\* time?.value is falsy: time is null or its value is the empty string.
HasValue(time) == ~IsNull(time) /\ Len(Val(time).value) > 0

parseEventTime(time) ==
    IF ~HasValue(time) THEN Null
    ELSE parseEventTimeValue(Val(time).value)

hasStartAndEnd(e) == HasValue(e.start_time) /\ HasValue(e.end_time)

\* setUTCHours(23, 59, 59, 999) on a copy of the date at tick t.
endOfDay(t) ==
    [tick |-> t - (t % MIN_SPAN_MS) + (MIN_SPAN_MS - 1), ms |-> TICK_MS - 1]

\* Variant: an unparseable start_time falls back to the other fields also
\* when end_time is present.
eventStartDate_Lenient(e) ==
    Coalesce(parseEventTime(e.start_time),
             Coalesce(parseEventTime(e.point_in_time),
                      parseEventTime(e.end_time)))

eventStartDate(e) ==
    IF hasStartAndEnd(e) THEN parseEventTime(e.start_time)
    ELSE Coalesce(parseEventTime(e.start_time),
                  Coalesce(parseEventTime(e.point_in_time),
                           parseEventTime(e.end_time)))

\* Variant: the end falls back to start_time before point_in_time.
eventEndDate_StartFirst(e) ==
    IF hasStartAndEnd(e) THEN parseEventTime(e.end_time)
    ELSE Coalesce(parseEventTime(e.end_time),
                  Coalesce(parseEventTime(e.start_time),
                           parseEventTime(e.point_in_time)))

eventEndDate(e) ==
    IF hasStartAndEnd(e) THEN parseEventTime(e.end_time)
    ELSE Coalesce(parseEventTime(e.end_time),
                  Coalesce(parseEventTime(e.point_in_time),
                           parseEventTime(e.start_time)))

\* Variant: the end is not clamped to the start.
TimeRange_NoClamp(start, end, e) ==
    IF IsNull(start) THEN Null
    ELSE Some([start |-> Val(start), end |-> Val(Coalesce(end, start)), event |-> e])

\* The range of event e with resolved start and end: rawEnd = end ?? start,
\* endMs = Math.max(startMs, rawEnd).
TimeRange(start, end, e) ==
    IF IsNull(start) THEN Null
    ELSE Some([start |-> Val(start),
               end |-> Max(Val(start), Val(Coalesce(end, start))),
               event |-> e])

\* timeline/event-to-timeline-item.ts
timeRangeForEvent(e) == TimeRange(eventStartDate(e), eventEndDate(e), e)

----------------------------------------------------------------------------
(* timeline/event-to-timeline-item.ts: threshold and capacity functions *)

\* 365.25 * 24 * 60 * 60 * 1000 ms, in ticks.
YEAR_MS == 1461

MAX_SPAN_MS == 100 * YEAR_MS

FOCUSED_SPAN_MS == 10 * YEAR_MS

DEFAULT_MIN_VISIBLE_EVENTS == 30

DEFAULT_MAX_OVERLAPPING_EVENTS == 12

\* Math.log in fixed point: Log(x) = floor-approximation of log2(x) * 2^18
\* for x >= 1, by the shift-and-square method on an 18-bit mantissa.  The
\* code only uses quotients of differences of logarithms, which do not depend
\* on the base.  Log is non-decreasing, and increasing from one tick to the
\* next over the spans between FOCUSED_SPAN_MS and MAX_SPAN_MS.
LogOne == 2 ^ 18

\* floor(a * b / LogOne) for 0 <= a, b < 2 * LogOne, without exceeding 2^31.
MulShift(a, b) ==
    LET ah == a \div 512
        al == a % 512
    IN (ah * b + ((al * b) \div 512)) \div 512

RECURSIVE LogFraction(_, _)
LogFraction(y, k) ==
    IF k = 0 THEN 0
    ELSE LET sq == MulShift(y, y)
         IN IF sq >= 2 * LogOne
            THEN 2 ^ (k - 1) + LogFraction(sq \div 2, k - 1)
            ELSE LogFraction(sq, k - 1)

Log(x) ==
    LET n == CHOOSE k \in 0..30 : 2 ^ k <= x /\ (k = 30 \/ x < 2 ^ (k + 1))
        mantissa == IF n <= 18 THEN x * 2 ^ (18 - n) ELSE x \div 2 ^ (n - 18)
    IN n * LogOne + LogFraction(mantissa, 18)

\* logMax - logFocused
LogSpanRange == Log(MAX_SPAN_MS) - Log(FOCUSED_SPAN_MS)

\* Importance values (scores and thresholds) are compared as whole multiples
\* of 1 / (10 * LogSpanRange): a score of k tenths is Importance(k).
Importance(tenths) == tenths * LogSpanRange

\* Variant: the interpolation runs downwards from the cap.
minImportanceForVisibleSpan_Falling(spanMs) ==
    IF spanMs <= FOCUSED_SPAN_MS THEN 0
    ELSE IF spanMs >= MAX_SPAN_MS THEN Importance(8)
    ELSE 8 * (Log(MAX_SPAN_MS) - Log(spanMs))

\* Variant: the cap at and above the maximum span is 1.0.
minImportanceForVisibleSpan_CapOne(spanMs) ==
    IF spanMs <= FOCUSED_SPAN_MS THEN 0
    ELSE IF spanMs >= MAX_SPAN_MS THEN Importance(10)
    ELSE 8 * (Log(spanMs) - Log(FOCUSED_SPAN_MS))

\* (0.8 * (logSpan - logFocused)) / (logMax - logFocused)
minImportanceForVisibleSpan(spanMs) ==
    IF spanMs <= FOCUSED_SPAN_MS THEN 0
    ELSE IF spanMs >= MAX_SPAN_MS THEN Importance(8)
    ELSE 8 * (Log(spanMs) - Log(FOCUSED_SPAN_MS))

\* Math.ceil(a / b) for b # 0
CeilDiv(a, b) == IF b > 0 THEN 0 - ((0 - a) \div b) ELSE 0 - (a \div (0 - b))

\* Math.ceil(c / yearsVisible) with yearsVisible = visibleSpanMs / YEAR_MS;
\* c / 0 is Infinity, written as a count no Math.min argument reaches.
CeilPerYear(c, spanMs) ==
    IF spanMs = 0 THEN 2 ^ 30 ELSE CeilDiv(c * YEAR_MS, spanMs)

\* Variant: the constants of the 1-5 year and 5-20 year segments exchanged.
maxEventsForVisibleSpan_Swapped(spanMs, minVisibleEvents) ==
    IF spanMs < YEAR_MS THEN Min(225, CeilPerYear(120, spanMs))
    ELSE IF spanMs < 5 * YEAR_MS THEN CeilPerYear(75, spanMs)
    ELSE IF spanMs < 20 * YEAR_MS THEN CeilPerYear(120, spanMs)
    ELSE minVisibleEvents

maxEventsForVisibleSpan(spanMs, minVisibleEvents) ==
    IF spanMs < YEAR_MS THEN Min(225, CeilPerYear(120, spanMs))
    ELSE IF spanMs < 5 * YEAR_MS THEN CeilPerYear(120, spanMs)
    ELSE IF spanMs < 20 * YEAR_MS THEN CeilPerYear(75, spanMs)
    ELSE minVisibleEvents

\* eventsToTimelineItems: the threshold for an optional visible span.
MinImportanceOf(spanMs) ==
    IF ~IsNull(spanMs) THEN minImportanceForVisibleSpan(Val(spanMs)) ELSE 0

\* eventsToTimelineItems: the capacity for an optional visible span and a
\* list of nEvents events.
MaxEventsOf(spanMs, minVisibleEvents, nEvents) ==
    IF ~IsNull(spanMs)
    THEN maxEventsForVisibleSpan(Val(spanMs), minVisibleEvents)
    ELSE nEvents

----------------------------------------------------------------------------
(* timeline/event-to-timeline-item.ts: selector and selection pipeline *)

DEFAULT_MAX_EVENT_SPAN_VISIBLE_RATIO == 3

\* options?.field ?? deflt
OptionOr(opts, field, deflt) ==
    IF IsNull(opts) THEN deflt ELSE Coalesce(Val(opts)[field], <<deflt>>)[1]

\* Variant: the end of the event is not compared with the window.
OverlapsWindow_StartOnly(start, end, startMs, endMs) ==
    IF IsNull(start) THEN FALSE
    ELSE Val(start) <= endMs

\* Variant: the start of the event is not compared with the window.
OverlapsWindow_EndOnly(start, end, startMs, endMs) ==
    IF IsNull(start) THEN FALSE
    ELSE Val(Coalesce(end, start)) >= startMs

\* start <= endMs && (end ?? start) >= startMs, for a resolved start.
OverlapsWindow(start, end, startMs, endMs) ==
    IF IsNull(start) THEN FALSE
    ELSE Val(start) <= endMs /\ Val(Coalesce(end, start)) >= startMs

eventOverlapsWindow(e, startMs, endMs) ==
    OverlapsWindow(eventStartDate(e), eventEndDate(e), startMs, endMs)

\* Variant: a missing score counts as 0.
CompareByImportance_MissingAsZero(a, b) ==
    IF Val(Coalesce(b.importance_score, Some(0))) > Val(Coalesce(a.importance_score, Some(0)))
    THEN 1
    ELSE IF Val(Coalesce(b.importance_score, Some(0))) < Val(Coalesce(a.importance_score, Some(0)))
    THEN 0 - 1
    ELSE 0

\* The comparator (a, b) => (b.importance_score ?? -Infinity) -
\* (a.importance_score ?? -Infinity), as its sign; NaN (both scores missing)
\* counts as 0.
CompareByImportance(a, b) ==
    IF IsNull(a.importance_score) /\ IsNull(b.importance_score) THEN 0
    ELSE IF IsNull(a.importance_score) THEN 1
    ELSE IF IsNull(b.importance_score) THEN 0 - 1
    ELSE IF Val(b.importance_score) > Val(a.importance_score) THEN 1
    ELSE IF Val(b.importance_score) < Val(a.importance_score) THEN 0 - 1
    ELSE 0

\* Array.prototype.sort with that comparator: a stable sort.
RECURSIVE SortByImportance(_)
SortByImportance(seq) ==
    IF Len(seq) <= 1 THEN seq
    ELSE LET sorted == SortByImportance(SubSeq(seq, 1, Len(seq) - 1))
             x == seq[Len(seq)]
             \* x goes after the last element that does not sort after it
             k == Cardinality({i \in 1..Len(sorted) :
                                 \E j \in i..Len(sorted) :
                                    CompareByImportance(sorted[j], x) <= 0})
         IN SubSeq(sorted, 1, k) \o <<x>> \o SubSeq(sorted, k + 1, Len(sorted))

\* Array.prototype.filter: the elements of seq at the positions in kept, in
\* their order.
Filter(seq, kept) ==
    [k \in 1..Cardinality(kept) |->
        seq[CHOOSE i \in kept : Cardinality({j \in kept : j < i}) = k - 1]]

\* Array.prototype.slice(0, n)
SliceTo(seq, n) ==
    LET to == IF n < 0 THEN Max(Len(seq) + n, 0) ELSE Min(n, Len(seq))
    IN SubSeq(seq, 1, to)

\* Variant: a range does not cover its own end points.
MaxConcurrent_Exclusive(allRanges) ==
    LET criticalPoints == UNION { {allRanges[i].start, allRanges[i].end} :
                                    i \in 1..Len(allRanges) }
        Concurrent(point) ==
            Cardinality({i \in 1..Len(allRanges) :
                            point > allRanges[i].start /\ point < allRanges[i].end})
    IN IF criticalPoints = {} THEN 0
       ELSE CHOOSE c \in {Concurrent(pt) : pt \in criticalPoints} :
                \A pt \in criticalPoints : Concurrent(pt) <= c

\* The greatest number of ranges of allRanges covering one of their end points.
MaxConcurrent(allRanges) ==
    LET criticalPoints == UNION { {allRanges[i].start, allRanges[i].end} :
                                    i \in 1..Len(allRanges) }
        Concurrent(point) ==
            Cardinality({i \in 1..Len(allRanges) :
                            point >= allRanges[i].start /\ point <= allRanges[i].end})
    IN IF criticalPoints = {} THEN 0
       ELSE CHOOSE c \in {Concurrent(pt) : pt \in criticalPoints} :
                \A pt \in criticalPoints : Concurrent(pt) <= c

\* Variant: a candidate is admitted only below the bound.
Admit_Strict(sel, candidateRange, maxConcurrent) ==
    IF IsNull(candidateRange) THEN sel
    ELSE IF MaxConcurrent(Append(sel, Val(candidateRange))) < maxConcurrent
         THEN Append(sel, Val(candidateRange))
         ELSE sel

\* One pass of the loop: the selected ranges after the candidate's range has
\* been tried.
Admit(sel, candidateRange, maxConcurrent) ==
    IF IsNull(candidateRange) THEN sel
    ELSE IF MaxConcurrent(Append(sel, Val(candidateRange))) <= maxConcurrent
         THEN Append(sel, Val(candidateRange))
         ELSE sel

RECURSIVE SelectFrom(_, _, _, _)

\* Variant: the loop ends at the first candidate turned down.
SelectFrom_StopAtReject(byImportance, i, sel, maxConcurrent) ==
    IF i > Len(byImportance) THEN sel
    ELSE IF ~IsNull(timeRangeForEvent(byImportance[i]))
            /\ Admit(sel, timeRangeForEvent(byImportance[i]), maxConcurrent) = sel
    THEN sel
    ELSE SelectFrom(byImportance, i + 1,
                    Admit(sel, timeRangeForEvent(byImportance[i]), maxConcurrent),
                    maxConcurrent)

\* The loop over byImportance: the ranges selected after the candidates from
\* position i on have been tried.
SelectFrom(byImportance, i, sel, maxConcurrent) ==
    IF i > Len(byImportance) THEN sel
    ELSE SelectFrom(byImportance, i + 1,
                    Admit(sel, timeRangeForEvent(byImportance[i]), maxConcurrent),
                    maxConcurrent)

\* selected.map((r) => r.event)
EventsOf(sel) == [i \in 1..Len(sel) |-> sel[i].event]

\* Variant: the list of selected ranges is kept between calls, not created
\* by each call.
selectEventsUpToMaxConcurrent_SelectedKept(evts, maxConcurrent) ==
    EventsOf(SelectFrom(SortByImportance(evts), 1,
                        [i \in 1..Len(selected) |-> Val(timeRangeForEvent(selected[i]))],
                        maxConcurrent))

selectEventsUpToMaxConcurrent(evts, maxConcurrent) ==
    EventsOf(SelectFrom(SortByImportance(evts), 1, <<>>, maxConcurrent))

UNCATEGORIZED_GROUP_ID ==
    <<"u", "n", "c", "a", "t", "e", "g", "o", "r", "i", "z", "e", "d">>

MIN_RANGE_MS == 1000

\* models/category-colors.ts
CATEGORY_COLORS ==
    << "#1976d2", "#c62828", "#2e7d32", "#f9a825", "#6a1b9a",
       "#00838f", "#d84315", "#283593", "#558b2f", "#ad1457" >>

UNCATEGORIZED_COLOR == "#757575"

colorForCategory(categoryId) ==
    IF IsNull(categoryId) THEN UNCATEGORIZED_COLOR
    ELSE CATEGORY_COLORS[((IF Val(categoryId) < 0 THEN 0 - Val(categoryId)
                           ELSE Val(categoryId)) % Len(CATEGORY_COLORS)) + 1]

\* Variant: an event without end_time keeps the end it resolves to.
DisplayEnd_NoExtension(e, start, end) ==
    IF IsNull(end) THEN Null ELSE Some(DateAt(Val(end)))

\* The end after lines 21-25: the end of the start day for an event without
\* end_time whose end is missing or at the start.
DisplayEnd(e, start, end) ==
    IF ~HasValue(e.end_time) /\ (IsNull(end) \/ Val(end) = Val(start))
    THEN Some(endOfDay(Val(start)))
    ELSE IF IsNull(end) THEN Null ELSE Some(DateAt(Val(end)))

\* end != null && endMs > startMs && endMs - startMs >= MIN_RANGE_MS
HasRange(start, end) ==
    /\ ~IsNull(end)
    /\ DiffMs(Val(end), start) > 0
    /\ DiffMs(Val(end), start) >= MIN_RANGE_MS

\* event.title?.trim() || event.wikipedia_title?.trim() || `Event ${event.id}`
Label(e) ==
    IF Truthy(TrimOptional(e.title)) THEN Trim(Val(e.title))
    ELSE IF Truthy(TrimOptional(e.wikipedia_title)) THEN Trim(Val(e.wikipedia_title))
    ELSE <<"E", "v", "e", "n", "t", " ">> \o NumberToString(e.id)

\* The item of lines 36-50 for the start and the end of lines 18-25; style
\* is the colour its text is made of.
Item(e, start, end, hideLabel) ==
    [id |-> e.id,
     content |-> IF hideLabel THEN <<>> ELSE Label(e),
     start |-> ToISOString(start),
     title |-> Val(Coalesce(TrimOptional(e.description), Some(<<>>))),
     group |-> IF ~IsNull(e.category_id) THEN NumberToString(Val(e.category_id))
               ELSE UNCATEGORIZED_GROUP_ID,
     style |-> colorForCategory(e.category_id)]
    @@ (IF HasRange(start, end)
        THEN [end |-> ToISOString(Val(end)), type |-> "range"]
        ELSE [type |-> "point"])

\* The item of event e with resolved start.
ItemOf(e, start, hideLabel) ==
    IF IsNull(start) THEN Null
    ELSE Some(Item(e, DateAt(Val(start)), DisplayEnd(e, start, eventEndDate(e)),
                   hideLabel))

eventToTimelineItem(e, hideLabel) == ItemOf(e, eventStartDate(e), hideLabel)

\* const sorted = [...values].sort((a, b) => a - b)
SortNumbers(values) ==
    [k \in 1..Len(values) |->
        CHOOSE v \in { values[i] : i \in 1..Len(values) } :
            /\ Cardinality({i \in 1..Len(values) : values[i] < v}) < k
            /\ k <= Cardinality({i \in 1..Len(values) : values[i] <= v})]

MedianOfSorted(sorted) ==
    IF Len(sorted) % 2 = 1 THEN sorted[(Len(sorted) \div 2) + 1]
    ELSE (sorted[Len(sorted) \div 2] + sorted[(Len(sorted) \div 2) + 1]) \div 2

\* The median of values that are even numbers, so that the mean of the two
\* middle values is a whole number.
median(values) == IF Len(values) = 0 THEN 0 ELSE MedianOfSorted(SortNumbers(values))

\* 0.05, in hundredths.
DEFAULT_SHORT_EVENT_FRACTION == 5

\* Math.max(0, end.getTime() - start.getTime()): whole ticks and the
\* milliseconds beyond them.
EventSpan(start, end) ==
    IF DiffMs(end, start) <= 0 THEN [ticks |-> 0, ms |-> 0]
    ELSE [ticks |-> end.tick - start.tick, ms |-> end.ms - start.ms]

\* eventSpanMs / visibleSpanMs < shortEventFraction for a span of
\* span.ticks ticks and span.ms < TICK_MS milliseconds, a visible span of
\* visibleTicks ticks and a fraction of hundredths / 100: that is
\* 100 * span.ms < quota * TICK_MS.
ShortFor(span, quota) ==
    IF quota >= 100 THEN TRUE
    ELSE IF quota <= 0 THEN FALSE
    ELSE span.ms < CeilDiv(quota * TICK_MS, 100)

\* A quotient by a negative visible span is negative, or -0 for a span of
\* 0; a quotient by 0 is Infinity or NaN and below nothing.
IsShort(span, visibleTicks, hundredths) ==
    IF visibleTicks < 0 THEN span.ticks > 0 \/ span.ms > 0 \/ hundredths > 0
    ELSE IF visibleTicks = 0 THEN FALSE
    ELSE ShortFor(span, hundredths * visibleTicks - 100 * span.ticks)

\* The end of lines 252-256.
HideLabelEnd(e, start, end) ==
    IF ~HasValue(e.end_time) /\ Val(Coalesce(end, start)) = Val(start)
    THEN endOfDay(Val(start))
    ELSE DateAt(Val(Coalesce(end, start)))

\* Importance scores are doubled on their way to median.
ScoreOrZero(e) == 2 * Val(Coalesce(e.importance_score, Some(0)))

\* Variant: a short event's label is hidden whatever its score.
HideLabelOf_ShortOnly(e, start, visibleTicks, hundredths, medianImportance) ==
    IsShort(EventSpan(DateAt(Val(start)), HideLabelEnd(e, start, eventEndDate(e))),
            visibleTicks, hundredths)

\* short && lowImportance, for an event with a start
HideLabelOf(e, start, visibleTicks, hundredths, medianImportance) ==
    /\ IsShort(EventSpan(DateAt(Val(start)), HideLabelEnd(e, start, eventEndDate(e))),
               visibleTicks, hundredths)
    /\ ScoreOrZero(e) < medianImportance

\* The last event of evts with the id: the one whose entry stays in the map.
LastWithId(evts, id) ==
    evts[CHOOSE i \in 1..Len(evts) :
            evts[i].id = id /\ \A j \in (i + 1)..Len(evts) : evts[j].id # id]

\* The map after the loop of lines 249-261.
HideLabels(evts, visibleTicks, hundredths, medianImportance) ==
    [id \in { evts[i].id : i \in { j \in 1..Len(evts) : ~IsNull(eventStartDate(evts[j])) } }
        |-> HideLabelOf(LastWithId(evts, id), eventStartDate(LastWithId(evts, id)),
                        visibleTicks, hundredths, medianImportance)]

\* Variant: a window of any width hides labels.
computeHideLabelByEventId_AnyWidth(evts, window, shortEventFraction) ==
    IF IsNull(window) \/ Len(evts) = 0 THEN <<>>
    ELSE HideLabels(evts, Val(window).endMs - Val(window).startMs, shortEventFraction,
                    median([i \in 1..Len(evts) |-> ScoreOrZero(evts[i])]))

computeHideLabelByEventId(evts, window, shortEventFraction) ==
    IF IsNull(window) \/ Len(evts) = 0 THEN <<>>
    ELSE IF Val(window).endMs - Val(window).startMs <= 0 THEN <<>>
    ELSE HideLabels(evts, Val(window).endMs - Val(window).startMs, shortEventFraction,
                    median([i \in 1..Len(evts) |-> ScoreOrZero(evts[i])]))

\* hideLabelByEventId.get(event.id) ?? false
GetOrFalse(map, key) == IF key \in DOMAIN map THEN map[key] ELSE FALSE

MinToShow(window, minVisibleEvents, pool) ==
    IF ~IsNull(window) THEN Min(minVisibleEvents, Len(pool)) ELSE 0

\* Variant: the capacity is ignored.
TakeCount_NoCapacity(minToShow, maxEvents, byImportance) ==
    Max(minToShow, Len(byImportance))

TakeCount(minToShow, maxEvents, byImportance) ==
    Max(minToShow, Min(maxEvents, Len(byImportance)))

\* Variant: no backfill from the pool.
ToShow_NoBackfill(topEvents, minToShow, pool) == topEvents

ToShow(topEvents, minToShow, pool) ==
    IF Len(topEvents) >= minToShow \/ minToShow = 0
    THEN topEvents
    ELSE SliceTo(SortByImportance(pool), Max(minToShow, Len(topEvents)))

\* minVisibleEvents, maxOverlapping, maxEventSpanVisibleRatio, minImportance
\* and maxEvents of eventsToTimelineItems.
Limits(evts, spanMs, opts) ==
    [minVisibleEvents |-> OptionOr(opts, "minVisibleEvents", DEFAULT_MIN_VISIBLE_EVENTS),
     maxOverlapping |-> OptionOr(opts, "maxOverlappingEvents",
                                 DEFAULT_MAX_OVERLAPPING_EVENTS),
     shortEventFraction |-> OptionOr(opts, "shortEventFraction",
                                     DEFAULT_SHORT_EVENT_FRACTION),
     maxEventSpanVisibleRatio |-> OptionOr(opts, "maxEventSpanVisibleRatio",
                                           DEFAULT_MAX_EVENT_SPAN_VISIBLE_RATIO),
     minImportance |-> MinImportanceOf(spanMs),
     maxEvents |-> MaxEventsOf(spanMs,
                               OptionOr(opts, "minVisibleEvents",
                                        DEFAULT_MIN_VISIBLE_EVENTS),
                               Len(evts))]

Overlapping(evts, window) ==
    IF ~IsNull(window)
    THEN Filter(evts, {i \in 1..Len(evts) :
                         eventOverlapsWindow(evts[i], Val(window).startMs,
                                             Val(window).endMs)})
    ELSE evts

\* Variant: an event of any duration is kept.
NotTooBroad_KeepAll(range, maxEventSpanMs) == TRUE

\* The predicate of the filter that makes the pool.
NotTooBroad(range, maxEventSpanMs) ==
    IF IsNull(range) THEN TRUE
    ELSE Val(range).end - Val(range).start <= maxEventSpanMs

\* maxEventSpanMs is finite for a visible span above 0.
Pool(overlapping, spanMs, maxEventSpanVisibleRatio) ==
    IF ~IsNull(spanMs) /\ Val(spanMs) > 0
    THEN Filter(overlapping,
                {i \in 1..Len(overlapping) :
                    NotTooBroad(timeRangeForEvent(overlapping[i]),
                                maxEventSpanVisibleRatio * Val(spanMs))})
    ELSE overlapping

\* Variant: a score equal to the threshold does not pass.
AboveThreshold_Strict(pool, minImportance) ==
    Filter(pool, {i \in 1..Len(pool) :
                    Importance(Val(Coalesce(pool[i].importance_score, Some(0))))
                        > minImportance})

AboveThreshold(pool, minImportance) ==
    Filter(pool, {i \in 1..Len(pool) :
                    Importance(Val(Coalesce(pool[i].importance_score, Some(0))))
                        >= minImportance})

TopEvents(byImportance, minToShow, maxEvents) ==
    SliceTo(byImportance, TakeCount(minToShow, maxEvents, byImportance))

\* The constants of eventsToTimelineItems, in the order the code binds them:
\* each step adds to the record l of those bound before it.
WithPool(l, evts, spanMs, window) ==
    l @@ [pool |-> Pool(Overlapping(evts, window), spanMs, l.maxEventSpanVisibleRatio)]

WithThreshold(l, window) ==
    l @@ [minToShow |-> MinToShow(window, l.minVisibleEvents, l.pool),
          aboveThreshold |-> AboveThreshold(l.pool, l.minImportance)]

WithTopEvents(l) ==
    l @@ [topEvents |-> TopEvents(SortByImportance(l.aboveThreshold),
                                  l.minToShow, l.maxEvents)]

WithToShow(l) == l @@ [toShow |-> ToShow(l.topEvents, l.minToShow, l.pool)]

PipelineLocals(evts, spanMs, window, opts) ==
    WithToShow(WithTopEvents(WithThreshold(
        WithPool(Limits(evts, spanMs, opts), evts, spanMs, window), window)))

\* .filter((item): item is TimelineItem => item != null)
NonNull(mapped) ==
    Filter(mapped, {i \in 1..Len(mapped) : ~IsNull(mapped[i])})

Unwrap(kept) == [i \in 1..Len(kept) |-> Val(kept[i])]

\* result.map(eventToTimelineItem).filter(item => item != null)
ItemsOf(result, hideLabelByEventId) ==
    Unwrap(NonNull([i \in 1..Len(result) |->
        eventToTimelineItem(result[i], GetOrFalse(hideLabelByEventId, result[i].id))]))

\* Lines 219-226: the items of the events the selector returned.
Materialized(result, window, shortEventFraction) ==
    ItemsOf(result, computeHideLabelByEventId(result, window, shortEventFraction))

\* selectEventsUpToMaxConcurrent(toShow, maxOverlapping)
SelectedOf(l) == selectEventsUpToMaxConcurrent(l.toShow, l.maxOverlapping)

eventsToTimelineItems(evts, spanMs, window, opts) ==
    Materialized(SelectedOf(PipelineLocals(evts, spanMs, window, opts)), window,
                 OptionOr(opts, "shortEventFraction", DEFAULT_SHORT_EVENT_FRACTION))

----------------------------------------------------------------------------
(* EventsService (events.service.ts) *)

\* private readonly apiUrl = '/api/events/'
apiUrl == <<"/", "a", "p", "i", "/", "e", "v", "e", "n", "t", "s", "/">>

\* The position of the "://" that ends a scheme, 0 if the string has none.
SchemeEnd(next) ==
    LET ends == { i \in 1..(Len(next) - 2) :
                    /\ next[i] = ":" /\ next[i + 1] = "/" /\ next[i + 2] = "/"
                    /\ \A j \in 1..(i - 1) : next[j] \notin {"/", "?", "#"} }
    IN IF ends = {} \/ next[1] = "/" THEN 0 ELSE CHOOSE i \in ends : TRUE

\* The position of the first "/" after the host of an absolute URL, 0 if
\* nothing follows the host.
PathStart(next) ==
    LET slashes == { i \in (SchemeEnd(next) + 3)..Len(next) : next[i] = "/" }
    IN IF slashes = {} THEN 0
       ELSE CHOOSE i \in slashes : \A j \in slashes : i <= j

\* u.pathname + u.search of new URL(next, window.location.origin), for next
\* without a fragment: an absolute URL loses its origin, a path stays, and
\* anything else is resolved against the root.
nextUrlSameOrigin(next) ==
    IF SchemeEnd(next) > 0
    THEN IF PathStart(next) = 0 THEN <<"/">>
         ELSE SubSeq(next, PathStart(next), Len(next))
    ELSE IF Len(next) > 0 /\ next[1] = "/" THEN next
    ELSE <<"/">> \o next

\* categoryId: 'uncategorized' or a number.
Uncategorized == [uncategorized |-> TRUE, id |-> 0]

CategoryId(n) == [uncategorized |-> FALSE, id |-> n]

\* The HttpParams of the first request.
HttpParamsOf(categoryId, eventTypeId) ==
    [category |-> IF IsNull(categoryId) THEN Null
                  ELSE IF Val(categoryId).uncategorized THEN Some(UNCATEGORIZED_GROUP_ID)
                  ELSE Some(NumberToString(Val(categoryId).id)),
     event_type |-> IF IsNull(eventTypeId) THEN Null
                    ELSE Some(NumberToString(Val(eventTypeId)))]

NoParams == [category |-> Null, event_type |-> Null]

\* expand's project: the request that follows the response res, if any.
NextRequest(res) ==
    IF Truthy(res.next)
    THEN Some([url |-> nextUrlSameOrigin(Val(res.next)), params |-> NoParams])
    ELSE Null

\* reduce's accumulator function.
Reduced(sofar, res) == sofar \o res.results

\* Variant: every accumulated list is emitted, as scan does.
EmittedBy_Scan(sofar, list, complete) == Append(sofar, list)

\* reduce emits its accumulator when its source completes, and nothing before.
EmittedBy(sofar, list, complete) == IF complete THEN Append(sofar, list) ELSE sofar

----------------------------------------------------------------------------
(* App (app.ts) *)

\* Variant: the handlers do not compare requestId with loadRequestId.
IsLatest_Unguarded(requestId, latest) == TRUE

\* requestId === this.loadRequestId
IsLatest(requestId, latest) == requestId = latest

\* next: (events) => { if (...) { this.events = events; this.selectedEventId = null } }
OnNext(requestId, list) ==
    IF IsLatest(requestId, loadRequestId)
    THEN /\ appEvents' = list
         /\ selectedEventId' = Null
    ELSE UNCHANGED <<appEvents, selectedEventId>>

\* error: () => { if (...) { this.events = [] } }
OnError(requestId) ==
    /\ appEvents' = IF IsLatest(requestId, loadRequestId) THEN <<>> ELSE appEvents
    /\ UNCHANGED selectedEventId

\* this.selectedEventId === eventId ? null : eventId
Toggled(eventId) == IF selectedEventId = Some(eventId) THEN Null ELSE Some(eventId)

----------------------------------------------------------------------------
(* timeline/timeline.component.ts *)

\* A number: finite, with its value, or not (NaN, Infinity, -Infinity).
Finite(n) == [finite |-> TRUE, value |-> n]

NaN == [finite |-> FALSE, value |-> 0]

\* Neither coordinate is null or undefined, and Number.isFinite of both.
HasFiniteCoordinates(e) ==
    /\ ~IsNull(e.location_lat) /\ ~IsNull(e.location_lon)
    /\ Val(e.location_lat).finite /\ Val(e.location_lon).finite

\* Variant: the edges of the bounds are outside.
WithinBounds_Exclusive(lat, lon, b) ==
    lat > b.south /\ lat < b.north /\ lon > b.west /\ lon < b.east

WithinBounds(lat, lon, b) ==
    lat >= b.south /\ lat <= b.north /\ lon >= b.west /\ lon <= b.east

\* Variant: an event without finite coordinates passes the filter.
InMapBounds_KeepUnlocated(e, b) ==
    IF ~HasFiniteCoordinates(e) THEN TRUE
    ELSE WithinBounds(Val(e.location_lat).value, Val(e.location_lon).value, b)

\* The predicate of the filter of eventsForTimeline.
InMapBounds(e, b) ==
    IF ~HasFiniteCoordinates(e) THEN FALSE
    ELSE WithinBounds(Val(e.location_lat).value, Val(e.location_lon).value, b)

eventsForTimeline(evts, displayOptions, bounds) ==
    IF ~displayOptions.filterByVisibleMapArea \/ IsNull(bounds) THEN evts
    ELSE Filter(evts, {i \in 1..Len(evts) : InMapBounds(evts[i], Val(bounds))})

\* items.map((i) => Number(i.id))
IdsOf(its) == { its[i].id : i \in 1..Len(its) }

ItemIds == IdsOf(items)

\* The numbers of a set in ascending order: [...ids].sort((a, b) => a - b)
SortedIds(ids) ==
    [k \in 1..Cardinality(ids) |->
        CHOOSE v \in ids : Cardinality({u \in ids : u < v}) = k - 1]

Reversed(seq) == [i \in 1..Len(seq) |-> seq[Len(seq) + 1 - i]]

\* byId.get(categoryId): the last category with the id, null if none.
CategoryById(cats, categoryId) ==
    LET at == { i \in 1..Len(cats) : cats[i].id = categoryId }
    IN IF at = {} THEN Null ELSE Some(cats[CHOOSE i \in at : \A j \in at : j <= i])

\* cat?.name ?? cat?.wikidata_id ?? `Category ${categoryId}`
CategoryName(cat, categoryId) ==
    IF ~IsNull(cat) /\ ~IsNull(Val(cat).name) THEN Val(Val(cat).name)
    ELSE IF ~IsNull(cat) /\ ~IsNull(Val(cat).wikidata_id) THEN Val(Val(cat).wikidata_id)
    ELSE <<"C", "a", "t", "e", "g", "o", "r", "y", " ">> \o NumberToString(categoryId)

\* The group of the category at position index (from 0) of ordered; style is
\* the colour its text is made of.
GroupOf(categoryId, cats, index) ==
    [id |-> IF ~IsNull(categoryId) THEN NumberToString(Val(categoryId))
            ELSE UNCATEGORIZED_GROUP_ID,
     content |-> IF IsNull(categoryId)
                 THEN <<"U", "n", "c", "a", "t", "e", "g", "o", "r", "i", "z", "e", "d">>
                 ELSE CategoryName(CategoryById(cats, Val(categoryId)), Val(categoryId)),
     style |-> colorForCategory(categoryId),
     order |-> index]

\* Variant: no group for the events without a category.
Ordered_NoUncategorized(fromCategories, missingIds, hasUncategorized) ==
    Reversed(fromCategories \o missingIds)

\* [...fromCategories, ...missingIds, ...(hasUncategorized ? [null] : [])].reverse()
Ordered(fromCategories, missingIds, hasUncategorized) ==
    Reversed(fromCategories \o missingIds \o (IF hasUncategorized THEN <<Null>> ELSE <<>>))

\* The ids of the categories of the events.
PresentIds(evts) ==
    { Val(evts[i].category_id) : i \in { j \in 1..Len(evts) : ~IsNull(evts[j].category_id) } }

\* this.categories.filter((c) => presentIds.has(c.id)).map((c) => c.id)
FromCategories(cats, presentIds) ==
    LET kept == Filter(cats, {i \in 1..Len(cats) : cats[i].id \in presentIds})
    IN [i \in 1..Len(kept) |-> Some(kept[i].id)]

\* [...presentIds].filter((id) => !byId.has(id)).sort((a, b) => a - b)
MissingIds(cats, presentIds) ==
    LET sorted == SortedIds({ id \in presentIds : IsNull(CategoryById(cats, id)) })
    IN [i \in 1..Len(sorted) |-> Some(sorted[i])]

GroupsOf(ordered, cats) ==
    [i \in 1..Len(ordered) |-> GroupOf(ordered[i], cats, i - 1)]

buildGroups(evts, cats) ==
    GroupsOf(Ordered(FromCategories(cats, PresentIds(evts)),
                     MissingIds(cats, PresentIds(evts)),
                     \E i \in 1..Len(evts) : IsNull(evts[i].category_id)),
             cats)

\* new Date(text).getTime() for the text toISOString makes: four digits of
\* year, or a sign and six, then -MM-DDTHH:mm:ss.sssZ.
DateParseIso(text) ==
    LET signed == text[1] \in {"+", "-"}
        p == IF signed THEN 8 ELSE 5
        year == (IF text[1] = "-" THEN 0 - 1 ELSE 1)
                    * DigitsToInt(SubSeq(text, IF signed THEN 2 ELSE 1, p - 1))
        msOfDay == DigitsToInt(SubSeq(text, p + 7, p + 8)) * 3600000
                     + DigitsToInt(SubSeq(text, p + 10, p + 11)) * 60000
                     + DigitsToInt(SubSeq(text, p + 13, p + 14)) * 1000
                     + DigitsToInt(SubSeq(text, p + 16, p + 18))
    IN [tick |-> DateFromYMD(year, DigitsToInt(SubSeq(text, p + 1, p + 2)) - 1,
                             DigitsToInt(SubSeq(text, p + 4, p + 5)))
                   + (msOfDay \div TICK_MS),
        ms |-> msOfDay % TICK_MS]

\* a.getTime() <= b.getTime()
NotAfter(a, b) == a.tick < b.tick \/ (a.tick = b.tick /\ a.ms <= b.ms)

Earliest(dates) == CHOOSE a \in dates : \A b \in dates : NotAfter(a, b)

Latest(dates) == CHOOSE a \in dates : \A b \in dates : NotAfter(b, a)

\* The range from minMs to maxMs, half of MIN_SPAN_MS to either side when
\* they are equal.
RangeBetween(min, max) ==
    IF min = max
    THEN [start |-> [min EXCEPT !.tick = @ - (MIN_SPAN_MS \div 2)],
          end |-> [min EXCEPT !.tick = @ + (MIN_SPAN_MS \div 2)]]
    ELSE [start |-> min, end |-> max]

\* The end of an item: item.end != null ? new Date(item.end) : startMs
ItemEnd(it) ==
    IF "end" \in DOMAIN it THEN DateParseIso(it.end) ELSE DateParseIso(it.start)

dateRangeFromItems(its) ==
    IF Len(its) = 0 THEN Null
    ELSE Some(RangeBetween(Earliest({ DateParseIso(its[i].start) : i \in 1..Len(its) }),
                           Latest({ ItemEnd(its[i]) : i \in 1..Len(its) })))

\* The events with a resolvable start.
WithStart(evts) == Filter(evts, {i \in 1..Len(evts) : ~IsNull(eventStartDate(evts[i]))})

\* The range from the earliest start to the latest end ?? start of the events
\* with a start, null if there is none.
eventDateRange(evts) ==
    IF Len(WithStart(evts)) = 0 THEN Null
    ELSE Some(RangeBetween(
            Earliest({ DateAt(Val(eventStartDate(WithStart(evts)[i]))) :
                         i \in 1..Len(WithStart(evts)) }),
            Latest({ DateAt(Val(Coalesce(eventEndDate(WithStart(evts)[i]),
                                         eventStartDate(WithStart(evts)[i])))) :
                       i \in 1..Len(WithStart(evts)) })))

\* windowRange.end.getTime() > maxDate.getTime() ? maxDate : windowRange.end
WindowEnd(end, maxDate) == IF NotAfter(end, maxDate) THEN end ELSE maxDate

\* Variant: the id is selected whether an item has it or not.
SelectionFor_Undisplayed(id, itemIds) ==
    IF ~IsNull(id) THEN <<Val(id)>> ELSE <<>>

\* applySelection: [id] when id != null && currentItemIds.has(id), else [].
SelectionFor(id, itemIds) ==
    IF ~IsNull(id) /\ Val(id) \in itemIds THEN <<Val(id)>> ELSE <<>>

\* Variant: currentItemIds is left as it is.
Cleared_Kept(itemIds) == itemIds

\* this.currentItemIds.clear()
Cleared(itemIds) == {}

\* Variant: ngOnDestroy keeps the reference to the widget.
AfterDestroy_Kept(reference) == reference

\* ngOnDestroy: this.timeline = null
AfterDestroy(reference) == Null

----------------------------------------------------------------------------
(* Calls of the temporal resolver *)

\* The year part of a time value: its digits and the number they denote.
YearForms ==
    { [text |-> <<"0">>, n |-> 0],
      [text |-> <<"1">>, n |-> 1],
      [text |-> <<"6", "0">>, n |-> 60],
      [text |-> <<"9", "9">>, n |-> 99],
      [text |-> <<"1", "0", "0">>, n |-> 100],
      [text |-> <<"0", "0", "6", "0">>, n |-> 60],
      [text |-> <<"1", "9", "4", "3">>, n |-> 1943],
      [text |-> <<"2", "0", "0", "0">>, n |-> 2000],
      [text |-> <<"9", "9", "9", "9">>, n |-> 9999] }

SignForms == { <<>>, <<"-">>, <<UNICODE_MINUS>> }

\* Two-digit month and day fields, 0 standing for "field absent".
MonthForms == {0, 1, 2, 12, 13}

DayForms == {0, 1, 28, 29, 31}

\* A time of day as the API appends it to a date.
TimeSuffix == <<"T", "1", "2", ":", "3", "0", ":", "0", "0", "Z">>

\* Times of day as toISOString writes them.
IsoMidnight == <<"T", "0", "0", ":", "0", "0", ":", "0", "0", ".", "0", "0", "0", "Z">>

IsoNoon == <<"T", "1", "2", ":", "0", "0", ":", "0", "0", ".", "0", "0", "0", "Z">>

IsoTimes == { IsoMidnight, IsoNoon }

SuffixForms == { <<>>, TimeSuffix } \cup IsoTimes

\* [sign]YYYY[-MM[-DD]][suffix]; month or day 100 writes the field "00".
DateString(sign, year, month, day, suffix) ==
    sign \o year.text
         \o (IF month = 0 THEN <<>> ELSE <<"-">> \o TwoDigits(month % 100))
         \o (IF month = 0 \/ day = 0 THEN <<>> ELSE <<"-">> \o TwoDigits(day % 100))
         \o suffix

\* Strings the date pattern rejects and that hold no digit.
MalformedStrings == { <<"x">>, <<"-">>, <<"-", "x">>, <<UNICODE_MINUS>> }

ParseInputs ==
    {Null, Some([value |-> <<>>])}
    \cup { Some([value |-> s]) : s \in MalformedStrings }
    \cup { Some([value |-> DateString(sg, y, m, d, sf)]) :
              sg \in SignForms, y \in YearForms,
              m \in MonthForms \cup {100}, d \in DayForms \cup {100},
              sf \in SuffixForms }

\* The date fields of the events whose extent is resolved.
ExtentTimeValues ==
    { Null,
      Some([value |-> <<>>]),
      Some([value |-> <<"x">>]),
      Some([value |-> <<UNICODE_MINUS, "6", "0">>]),
      Some([value |-> <<"1", "9", "3", "9", "-", "0", "9", "-", "0", "1">>]),
      Some([value |-> <<"1", "9", "4", "3", "-", "0", "6", "-", "0", "1">>]),
      Some([value |-> <<"1", "9", "4", "5", "-", "0", "9", "-", "0", "2">>]) }

ExtentEvents ==
    [start_time : ExtentTimeValues, end_time : ExtentTimeValues,
     point_in_time : ExtentTimeValues]

NoEvent == [start_time |-> Null, end_time |-> Null, point_in_time |-> Null]

ResolverIdle ==
    /\ timeValue = Null
    /\ parsed = Null
    /\ event = NoEvent
    /\ startDate = Null
    /\ endDate = Null
    /\ timeRange = Null

CurvesIdle ==
    /\ curveIn = Null
    /\ curveOut = Null

PipelineIdle ==
    /\ events = <<>>
    /\ visibleSpanMs = Null
    /\ visibleWindow = Null
    /\ options = Null
    /\ locals = Null
    /\ selected = <<>>
    /\ items = <<>>

ComponentIdle ==
    /\ mapBounds = Null
    /\ filtered = Null
    /\ currentItemIds = {}
    /\ widgetItems = Null
    /\ timers = 0

ServiceIdle ==
    /\ serverPages = <<>>
    /\ getEventsArgs = Null
    /\ httpRequests = <<>>
    /\ httpPending = {}
    /\ acc = <<>>
    /\ emitted = <<>>
    /\ subscription = "none"

AppIdle ==
    /\ appEvents = <<>>
    /\ selectedEventId = Null
    /\ loadRequestId = 0
    /\ loads = <<>>
    /\ appDestroyed = FALSE

WidgetIdle ==
    /\ timeline = Null
    /\ widget = "none"
    /\ listeners = {}
    /\ categories = <<>>
    /\ highlightedEventId = Null
    /\ widgetGroups = <<>>
    /\ widgetSelection = <<>>
    /\ widgetWindow = Null
    /\ destroyed = FALSE
    /\ calledAfterDestroy = FALSE

ClientIdle ==
    /\ remembered = Null
    /\ ServiceIdle
    /\ AppIdle
    /\ WidgetIdle

InitResolver ==
    /\ done = FALSE
    /\ CurvesIdle
    /\ PipelineIdle
    /\ ComponentIdle
    /\ ClientIdle
    /\ parsed = Null
    /\ startDate = Null
    /\ endDate = Null
    /\ timeRange = Null
    /\ \/ /\ op = "parseEventTime"
          /\ timeValue \in ParseInputs
          /\ event = NoEvent
       \/ /\ op = "eventExtent"
          /\ timeValue = Null
          /\ event \in ExtentEvents

CallParseEventTime ==
    /\ op = "parseEventTime" /\ ~done
    /\ parsed' = parseEventTime(timeValue)
    /\ done' = TRUE
    /\ UNCHANGED <<op, timeValue, event, startDate, endDate, timeRange, curveVars, pipelineVars,
                 componentVars, clientVars>>

\* eventStartDate, eventEndDate and timeRangeForEvent of one event.
CallEventExtent ==
    /\ op = "eventExtent" /\ ~done
    /\ startDate' = eventStartDate(event)
    /\ endDate' = eventEndDate(event)
    /\ timeRange' = timeRangeForEvent(event)
    /\ done' = TRUE
    /\ UNCHANGED <<op, timeValue, event, parsed, curveVars, pipelineVars,
                 componentVars, clientVars>>

NextResolver == CallParseEventTime \/ CallEventExtent

SpecResolver == InitResolver /\ [][NextResolver]_vars

----------------------------------------------------------------------------
(* Calls of the threshold and capacity functions *)

\* Visible spans: around each breakpoint of the two functions, and between.
SpanSamples ==
    { k * YEAR_MS + d : k \in {1, 5, 10, 20, 100}, d \in {0 - 1, 0, 1} }
    \cup { 0, 1, MIN_SPAN_MS, 2 * YEAR_MS, 15 * YEAR_MS, 30 * YEAR_MS,
           50 * YEAR_MS, 300 * YEAR_MS }

MinVisibleEventsSamples == {0, 3, 4, 5, DEFAULT_MIN_VISIBLE_EVENTS}

InitCurves ==
    /\ done = FALSE
    /\ ResolverIdle
    /\ PipelineIdle
    /\ ComponentIdle
    /\ ClientIdle
    /\ op = "curves"
    /\ \E s2 \in SpanSamples, n \in MinVisibleEventsSamples :
         \E s1 \in {Null} \cup { Some(s) : s \in {x \in SpanSamples : x <= s2} } :
            curveIn = Some([s1 |-> s1, s2 |-> Some(s2), minVisibleEvents |-> n,
                            nEvents |-> 7])
    /\ curveOut = Null

CurvesOf(in) ==
    Some([minImportance1 |-> MinImportanceOf(in.s1),
          minImportance2 |-> MinImportanceOf(in.s2),
          maxEvents1 |-> MaxEventsOf(in.s1, in.minVisibleEvents, in.nEvents),
          maxEvents2 |-> MaxEventsOf(in.s2, in.minVisibleEvents, in.nEvents)])

\* The threshold and the capacity eventsToTimelineItems derives from each of
\* the two spans.
CallCurves ==
    /\ op = "curves" /\ ~done
    /\ curveOut' = CurvesOf(Val(curveIn))
    /\ done' = TRUE
    /\ UNCHANGED <<op, curveIn, resolverVars, pipelineVars, componentVars, clientVars>>

NextCurves == CallCurves

SpecCurves == InitCurves /\ [][NextCurves]_vars

----------------------------------------------------------------------------
(* Calls of the selector and of the selection pipeline *)

Jan1(year) == DateFromYMD(year, 0, 1)

TimeOf(text) == Some([value |-> text])

\* The kinds of event a pool is made of: date fields and importance score.
EventKinds ==
    << \* a long range, high score
       [start_time |-> TimeOf(<<"1", "9", "0", "0">>),
        end_time |-> TimeOf(<<"1", "9", "4", "5">>),
        point_in_time |-> Null, importance_score |-> Some(9),
        title |-> Some(<<"W", "a", "r">>), wikipedia_title |-> Null,
        description |-> Some(<<" ", "a", " ", "b", "\n">>), category_id |-> Some(1)],
       \* a shorter range inside it
       [start_time |-> TimeOf(<<"1", "9", "4", "1">>),
        end_time |-> TimeOf(<<"1", "9", "4", "3">>),
        point_in_time |-> Null, importance_score |-> Some(5),
        title |-> Some(<<" ">>), wikipedia_title |-> Some(<<" ", "S", "i", "e", "g", "e">>),
        description |-> Null, category_id |-> Null],
       \* a point in time without a score
       [start_time |-> Null, end_time |-> Null,
        point_in_time |-> TimeOf(<<"1", "9", "4", "3">>), importance_score |-> Null,
        title |-> Null, wikipedia_title |-> Null,
        description |-> Some(<<>>), category_id |-> Some(12)],
       \* an end_time before the start_time
       [start_time |-> TimeOf(<<"1", "9", "4", "5">>),
        end_time |-> TimeOf(<<"1", "9", "3", "9">>),
        point_in_time |-> Null, importance_score |-> Some(5),
        title |-> Some(<<>>), wikipedia_title |-> Some(<<"\t">>),
        description |-> Null, category_id |-> Some(0 - 3)],
       \* an unparseable start_time beside a resolvable end_time
       [start_time |-> TimeOf(<<"x">>),
        end_time |-> TimeOf(<<"1", "9", "4", "3">>),
        point_in_time |-> Null, importance_score |-> Some(9),
        title |-> Some(<<"x">>), wikipedia_title |-> Null,
        description |-> Null, category_id |-> Null],
       \* a point in time with score 0
       [start_time |-> Null, end_time |-> Null,
        point_in_time |-> TimeOf(<<"1", "9", "4", "6", "-", "0", "6">>),
        importance_score |-> Some(0),
        title |-> Some(<<"D", " ", "1">>), wikipedia_title |-> Some(<<"D">>),
        description |-> Null, category_id |-> Some(1)] >>

\* The greatest number of events of one long-interval kind in a pool.
MaxCopies == 1

\* The pool holding count[k] events of kind k, kind after kind, each event
\* with its position as id.
RECURSIVE KindsFrom(_, _)
KindsFrom(count, k) ==
    IF k > Len(EventKinds) THEN <<>>
    ELSE [i \in 1..count[k] |-> k] \o KindsFrom(count, k + 1)

PoolOf(count, reversed) ==
    LET kinds == KindsFrom(count, 1)
        n == Len(kinds)
    IN [i \in 1..n |->
          LET kind == EventKinds[kinds[IF reversed THEN n + 1 - i ELSE i]]
          IN [id |-> i] @@ kind]

\* Every pool holds up to MaxCopies events of each of the two long-interval
\* kinds and at most one of each other kind, in either order.
Pools ==
    { PoolOf(count, reversed) :
        count \in { c \in [1..Len(EventKinds) -> 0..MaxCopies] :
                      \A k \in 3..Len(EventKinds) : c[k] <= 1 },
        reversed \in BOOLEAN }

SpanChoices ==
    { Null, Some(0), Some(MIN_SPAN_MS), Some(19 * YEAR_MS), Some(30 * YEAR_MS) }

WindowChoices ==
    { Null,
      Some([startMs |-> Jan1(1930), endMs |-> Jan1(1950)]),
      Some([startMs |-> Jan1(1942), endMs |-> Jan1(1944)]),
      Some([startMs |-> Jan1(1944), endMs |-> Jan1(1946)]) }

Options(minVisibleEvents, maxOverlappingEvents) ==
    Some([minVisibleEvents |-> minVisibleEvents,
          maxOverlappingEvents |-> maxOverlappingEvents,
          shortEventFraction |-> Null,
          maxEventSpanVisibleRatio |-> Null])

\* The options opts with the field set to value.
OptionsWith(opts, field, value) == Some([Val(opts) EXCEPT ![field] = value])

OptionChoices ==
    { Null,
      OptionsWith(Options(Some(2), Some(2)), "maxEventSpanVisibleRatio", Some(1)),
      Options(Some(0), Some(0)),
      Options(Some(2), Some(2)),
      Options(Some(2), Some(1)),
      Options(Some(3), Some(2)),
      Options(Null, Some(1)) }

InitPipeline ==
    /\ done = FALSE
    /\ ResolverIdle
    /\ CurvesIdle
    /\ ComponentIdle
    /\ ClientIdle
    /\ events \in Pools
    /\ locals = Null
    /\ selected = <<>>
    /\ items = <<>>
    /\ \/ /\ op = "eventsToTimelineItems"
          /\ visibleSpanMs \in SpanChoices
          /\ visibleWindow \in WindowChoices
          /\ options \in OptionChoices
       \/ /\ op = "selectEventsUpToMaxConcurrent"
          /\ visibleSpanMs = Null
          /\ visibleWindow = Null
          /\ options \in { Options(Null, Some(k)) : k \in {0, 1, 2, 3} }

CallEventsToTimelineItems ==
    /\ op = "eventsToTimelineItems" /\ ~done
    /\ locals' = Some(PipelineLocals(events, visibleSpanMs, visibleWindow, options))
    /\ selected' = selectEventsUpToMaxConcurrent(Val(locals').toShow,
                                                 Val(locals').maxOverlapping)
    /\ items' = Materialized(selected', visibleWindow, Val(locals').shortEventFraction)
    /\ done' = TRUE
    /\ UNCHANGED <<op, pipelineIn, resolverVars, curveVars, componentVars, clientVars>>

CallSelectEventsUpToMaxConcurrent ==
    /\ op = "selectEventsUpToMaxConcurrent" /\ ~done
    /\ selected' = selectEventsUpToMaxConcurrent(
                        events, Val(Val(options).maxOverlappingEvents))
    /\ done' = TRUE
    /\ UNCHANGED <<op, pipelineIn, locals, items, resolverVars, curveVars,
                 componentVars, clientVars>>

Next == CallEventsToTimelineItems \/ CallSelectEventsUpToMaxConcurrent

Spec == InitPipeline /\ [][Next]_vars

----------------------------------------------------------------------------
(* Calls of the pipeline over short events: labels, points and ranges *)

Jan1943(day) == DateFromYMD(1943, 0, day)

DayOf1943(day) == TimeOf(<<"1", "9", "4", "3", "-", "0", "1", "-">> \o TwoDigits(day))

\* An event of one day or a few, with its score and its title.
ShortEvent(start_time, end_time, point_in_time, importance_score, title) ==
    [start_time |-> start_time, end_time |-> end_time, point_in_time |-> point_in_time,
     importance_score |-> importance_score, title |-> title,
     wikipedia_title |-> Null, description |-> Null, category_id |-> Null]

ShortEventKinds ==
    << \* points in time with the scores 0.9, 0.5, 0.1 and none
       ShortEvent(Null, Null, DayOf1943(5), Some(9), Some(<<"A">>)),
       ShortEvent(Null, Null, DayOf1943(6), Some(5), Some(<<"B">>)),
       ShortEvent(Null, Null, DayOf1943(7), Some(1), Some(<<"C">>)),
       ShortEvent(Null, Null, DayOf1943(8), Null, Null),
       \* a range of exactly one day
       ShortEvent(DayOf1943(5), DayOf1943(6), Null, Some(1), Some(<<"E">>)),
       \* an end_time at the start_time
       ShortEvent(DayOf1943(5), DayOf1943(5), Null, Some(0), Some(<<" ">>)),
       \* an end_time before the start_time
       ShortEvent(DayOf1943(10), DayOf1943(2), Null, Some(1), Some(<<"G">>)),
       \* no end_time, the point in time after the start_time
       ShortEvent(DayOf1943(5), Null, DayOf1943(9), Some(5), Some(<<"H">>)),
       \* no resolvable start
       ShortEvent(TimeOf(<<"x">>), DayOf1943(5), Null, Some(9), Some(<<"I">>)),
       \* two years
       ShortEvent(TimeOf(<<"1", "9", "4", "2">>), TimeOf(<<"1", "9", "4", "4">>), Null,
                  Some(0), Some(<<"J">>)) >>

\* The greatest number of events of a pool of short events.
MaxShortEvents == 3

\* The pool of the kinds at the positions chosen, in their order.
ShortPoolOf(chosen) ==
    [i \in 1..Cardinality(chosen) |->
        [id |-> i] @@ Filter(ShortEventKinds, chosen)[i]]

ShortPools ==
    { ShortPoolOf(chosen) :
        chosen \in { c \in SUBSET (1..Len(ShortEventKinds)) :
                        Cardinality(c) <= MaxShortEvents } }

\* No window; windows of 1000 days, of 20 days, of no width and of a
\* negative width.
LabelWindowChoices ==
    { Null,
      Some([startMs |-> Jan1943(1), endMs |-> Jan1943(1001)]),
      Some([startMs |-> Jan1943(1), endMs |-> Jan1943(21)]),
      Some([startMs |-> Jan1943(5), endMs |-> Jan1943(5)]),
      Some([startMs |-> Jan1943(6), endMs |-> Jan1943(5)]) }

\* shortEventFraction in hundredths: the default, 0, 0.05 and 1.
LabelOptionChoices ==
    { Null,
      OptionsWith(Options(Null, Null), "shortEventFraction", Some(0)),
      OptionsWith(Options(Null, Null), "shortEventFraction", Some(5)),
      OptionsWith(Options(Null, Null), "shortEventFraction", Some(100)) }

InitLabels ==
    /\ done = FALSE
    /\ op = "eventsToTimelineItems"
    /\ ResolverIdle
    /\ CurvesIdle
    /\ ComponentIdle
    /\ ClientIdle
    /\ events \in ShortPools
    /\ visibleSpanMs \in { Null, Some(0), Some(1000 * MIN_SPAN_MS) }
    /\ visibleWindow \in LabelWindowChoices
    /\ options \in LabelOptionChoices
    /\ locals = Null
    /\ selected = <<>>
    /\ items = <<>>

NextLabels == CallEventsToTimelineItems

SpecLabels == InitLabels /\ [][NextLabels]_vars

----------------------------------------------------------------------------
(* Calls of the selector and of the pipeline, one after another *)

\* The pools of every kind of event once, in either order, and no events.
RepeatPools ==
    { <<>> } \cup { PoolOf([k \in 1..Len(EventKinds) |-> 1], reversed) :
                       reversed \in BOOLEAN }

RepeatSpans == { Null, Some(19 * YEAR_MS) }

RepeatWindows == { Null, Some([startMs |-> Jan1(1930), endMs |-> Jan1(1950)]) }

RepeatOptions == { Options(Some(2), Some(2)), Options(Some(3), Some(3)) }

\* The call that has returned: the function, its arguments and its result.
CallRecord ==
    [op |-> op, events |-> events, visibleSpanMs |-> visibleSpanMs,
     visibleWindow |-> visibleWindow, options |-> options,
     selected |-> selected, items |-> items]

\* The call that has returned is remembered, or the one remembered is kept.
Remember ==
    IF done THEN remembered' \in {remembered, Some(CallRecord)}
    ELSE remembered' = remembered

InitRepeat ==
    /\ done = FALSE
    /\ op = "eventsToTimelineItems"
    /\ ResolverIdle
    /\ CurvesIdle
    /\ PipelineIdle
    /\ ComponentIdle
    /\ ClientIdle

\* eventsToTimelineItems(events, visibleSpanMs, visibleWindow, options), after
\* whatever call came before.
NextCallEventsToTimelineItems ==
    /\ op' = "eventsToTimelineItems"
    /\ events' \in RepeatPools
    /\ visibleSpanMs' \in RepeatSpans
    /\ visibleWindow' \in RepeatWindows
    /\ options' \in RepeatOptions
    /\ locals' = Some(PipelineLocals(events', visibleSpanMs', visibleWindow', options'))
    /\ selected' = selectEventsUpToMaxConcurrent(Val(locals').toShow,
                                                 Val(locals').maxOverlapping)
    /\ items' = Materialized(selected', visibleWindow', Val(locals').shortEventFraction)
    /\ done' = TRUE
    /\ Remember
    /\ UNCHANGED <<resolverVars, curveVars, componentVars, serviceVars, appVars, widgetVars>>

\* selectEventsUpToMaxConcurrent(events, maxConcurrent), after whatever call
\* came before.
NextCallSelectEventsUpToMaxConcurrent ==
    /\ op' = "selectEventsUpToMaxConcurrent"
    /\ events' \in RepeatPools
    /\ visibleSpanMs' = Null
    /\ visibleWindow' = Null
    /\ options' \in { Options(Null, Some(k)) : k \in {1, 2} }
    /\ locals' = Null
    /\ selected' = selectEventsUpToMaxConcurrent(
                        events', Val(Val(options').maxOverlappingEvents))
    /\ items' = <<>>
    /\ done' = TRUE
    /\ Remember
    /\ UNCHANGED <<resolverVars, curveVars, componentVars, serviceVars, appVars, widgetVars>>

NextRepeat == NextCallEventsToTimelineItems \/ NextCallSelectEventsUpToMaxConcurrent

SpecRepeat == InitRepeat /\ [][NextRepeat]_vars

----------------------------------------------------------------------------
(* EventsService.getEvents: one subscription and the server's pages *)

\* The greatest number of pages the server holds.
MaxPages == 3

Origin == <<"h", "t", "t", "p", ":", "/", "/", "h">>

\* The path and query of page i: apiUrl for the first page.
PagePath(i) ==
    IF i = 1 THEN apiUrl
    ELSE apiUrl \o <<"?", "p", "a", "g", "e", "=">> \o NumberToString(i)

\* The events of page i: none, one or two.
PageResults(i, count) == [k \in 1..count |-> [id |-> 10 * i + k]]

\* n pages, each with the link to the one after it, absolute or not; the
\* last with the link null or ''.
ServerOf(n, counts, absolute, lastNext) ==
    [i \in 1..n |->
        [results |-> PageResults(i, counts[i]),
         next |-> IF i = n THEN lastNext
                  ELSE Some((IF absolute THEN Origin ELSE <<>>) \o PagePath(i + 1))]]

Servers ==
    { ServerOf(n, counts, absolute, lastNext) :
        n \in 1..MaxPages, counts \in [1..MaxPages -> 0..2],
        absolute \in BOOLEAN, lastNext \in {Null, Some(<<>>)} }

\* The page the server sends for a url.
PageAt(url) == CHOOSE i \in 1..Len(serverPages) : PagePath(i) = url

InitService ==
    /\ done = FALSE
    /\ op = "getEvents"
    /\ ResolverIdle
    /\ CurvesIdle
    /\ PipelineIdle
    /\ ComponentIdle
    /\ remembered = Null
    /\ serverPages \in Servers
    /\ getEventsArgs \in
          { Some([categoryId |-> c, eventTypeId |-> t]) :
              c \in {Null, Some(Uncategorized), Some(CategoryId(12))},
              t \in {Null, Some(3)} }
    /\ httpRequests = <<>>
    /\ httpPending = {}
    /\ acc = <<>>
    /\ emitted = <<>>
    /\ subscription = "none"
    /\ AppIdle
    /\ WidgetIdle

\* getEvents(categoryId, eventTypeId) is called and its observable subscribed
\* to: the first page is requested.
GetEvents ==
    /\ subscription = "none"
    /\ subscription' = "active"
    /\ httpRequests' = << [url |-> apiUrl,
                           params |-> HttpParamsOf(Val(getEventsArgs).categoryId,
                                                   Val(getEventsArgs).eventTypeId)] >>
    /\ httpPending' = {1}
    /\ acc' = <<>>
    /\ UNCHANGED <<op, done, serverPages, getEventsArgs, emitted, remembered,
                   resolverVars, curveVars, pipelineVars, componentVars, appVars,
                   widgetVars>>

\* The state after the response res to the request at position r: reduce
\* takes the response, expand requests the page it links to or, with no
\* request left, completes, and reduce emits.
AfterResponse(r, res, following) ==
    /\ acc' = Reduced(acc, res)
    /\ httpRequests' = IF IsNull(following) THEN httpRequests
                       ELSE Append(httpRequests, Val(following))
    /\ httpPending' = (httpPending \ {r}) \cup
                        (IF IsNull(following) THEN {} ELSE {Len(httpRequests) + 1})
    /\ emitted' = EmittedBy(emitted, acc', httpPending' = {})
    /\ subscription' = IF httpPending' = {} THEN "complete" ELSE "active"
    /\ done' = (httpPending' = {})

\* The response to a pending request arrives.
ResponseArrives ==
    /\ subscription = "active"
    /\ \E r \in httpPending :
          AfterResponse(r, serverPages[PageAt(httpRequests[r].url)],
                        NextRequest(serverPages[PageAt(httpRequests[r].url)]))
    /\ UNCHANGED <<op, serverPages, getEventsArgs, remembered,
                   resolverVars, curveVars, pipelineVars, componentVars, appVars,
                   widgetVars>>

\* A pending request fails: the error passes expand and reduce, and nothing
\* is emitted.
RequestFails ==
    /\ subscription = "active"
    /\ \E r \in httpPending :
          /\ httpPending' = {}
          /\ subscription' = "error"
          /\ done' = TRUE
    /\ UNCHANGED <<op, serverPages, getEventsArgs, httpRequests, acc, emitted, remembered,
                   resolverVars, curveVars, pipelineVars, componentVars, appVars,
                   widgetVars>>

NextService == GetEvents \/ ResponseArrives \/ RequestFails

SpecService == InitService /\ [][NextService]_vars

----------------------------------------------------------------------------
(* App: calls of loadEvents and the arrival of what they asked for *)

\* The greatest number of calls of loadEvents.
MaxLoads == 3

\* The filters of a call: all events, or those of category 12.
FilterChoices ==
    { [categoryFilter |-> Null, eventTypeFilter |-> Null],
      [categoryFilter |-> Some(CategoryId(12)), eventTypeFilter |-> Null] }

\* The lists getEvents emits: no event, one, two.
ListChoices == { [k \in 1..n |-> [id |-> k]] : n \in 0..2 }

InitApp ==
    /\ done = FALSE
    /\ op = "loadEvents"
    /\ ResolverIdle
    /\ CurvesIdle
    /\ PipelineIdle
    /\ ComponentIdle
    /\ ClientIdle

otherThanApp ==
    <<op, done, remembered, resolverVars, curveVars, pipelineVars, componentVars,
      serviceVars, widgetVars>>

\* loadEvents(categoryFilter, eventTypeFilter): the request gets the next
\* requestId and its observable is subscribed to.
LoadEvents ==
    /\ ~appDestroyed
    /\ loadRequestId < MaxLoads
    /\ loadRequestId' = loadRequestId + 1
    /\ \E f \in FilterChoices :
          loads' = Append(loads, [categoryFilter |-> f.categoryFilter,
                                  eventTypeFilter |-> f.eventTypeFilter,
                                  outcome |-> "pending", events |-> <<>>])
    /\ UNCHANGED <<appEvents, selectedEventId, appDestroyed, otherThanApp>>

\* The observable of the request requestId emits its list.
EventsArrive ==
    \E requestId \in DOMAIN loads : \E list \in ListChoices :
        /\ loads[requestId].outcome = "pending"
        /\ OnNext(requestId, list)
        /\ loads' = [loads EXCEPT ![requestId].outcome = "next",
                                   ![requestId].events = list]
        /\ UNCHANGED <<loadRequestId, appDestroyed, otherThanApp>>

\* The observable of the request requestId fails.
LoadFails ==
    \E requestId \in DOMAIN loads :
        /\ loads[requestId].outcome = "pending"
        /\ OnError(requestId)
        /\ loads' = [loads EXCEPT ![requestId].outcome = "error"]
        /\ UNCHANGED <<loadRequestId, appDestroyed, otherThanApp>>

\* onTimelineItemSelect(eventId)
OnTimelineItemSelect ==
    /\ ~appDestroyed
    /\ \E eventId \in 1..2 : selectedEventId' = Toggled(eventId)
    /\ UNCHANGED <<appEvents, loadRequestId, loads, appDestroyed, otherThanApp>>

\* onMapMarkerSelect(eventId)
OnMapMarkerSelect ==
    /\ ~appDestroyed
    /\ \E eventId \in 1..2 : selectedEventId' = Toggled(eventId)
    /\ UNCHANGED <<appEvents, loadRequestId, loads, appDestroyed, otherThanApp>>

\* The DestroyRef fires: takeUntilDestroyed unsubscribes from every request
\* still pending.
AppDestroyed ==
    /\ ~appDestroyed
    /\ appDestroyed' = TRUE
    /\ loads' = [r \in DOMAIN loads |->
                    IF loads[r].outcome = "pending"
                    THEN [loads[r] EXCEPT !.outcome = "unsubscribed"]
                    ELSE loads[r]]
    /\ UNCHANGED <<appEvents, selectedEventId, loadRequestId, otherThanApp>>

NextApp ==
    \/ LoadEvents
    \/ EventsArrive
    \/ LoadFails
    \/ OnTimelineItemSelect
    \/ OnMapMarkerSelect
    \/ AppDestroyed

SpecApp == InitApp /\ [][NextApp]_vars

----------------------------------------------------------------------------
(* TimelineComponent with its widget created: a change of the window *)

\* The map bounds: latitudes -10 to 50, longitudes 0 to 20.
BoundsChoices == { Null, Some([south |-> 0 - 10, north |-> 50, west |-> 0, east |-> 20]) }

\* Coordinates: missing or not finite, inside the bounds, on each edge and
\* just beyond each edge.
Coordinates ==
    { [lat |-> Null, lon |-> Some(Finite(5))],
      [lat |-> Some(Finite(10)), lon |-> Null],
      [lat |-> Some(NaN), lon |-> Some(Finite(5))],
      [lat |-> Some(Finite(10)), lon |-> Some(NaN)],
      [lat |-> Some(Finite(10)), lon |-> Some(Finite(5))],
      [lat |-> Some(Finite(50)), lon |-> Some(Finite(5))],
      [lat |-> Some(Finite(51)), lon |-> Some(Finite(5))],
      [lat |-> Some(Finite(0 - 10)), lon |-> Some(Finite(5))],
      [lat |-> Some(Finite(0 - 11)), lon |-> Some(Finite(5))],
      [lat |-> Some(Finite(10)), lon |-> Some(Finite(0))],
      [lat |-> Some(Finite(10)), lon |-> Some(Finite(0 - 1))],
      [lat |-> Some(Finite(10)), lon |-> Some(Finite(20))],
      [lat |-> Some(Finite(10)), lon |-> Some(Finite(21))] }

\* The greatest number of events of the component.
MaxLocatedEvents == 2

\* The i-th event has the dates and score of the i-th kind and the
\* coordinates at[i].
LocatedPool(at) ==
    [i \in 1..Len(at) |->
        [id |-> i, location_lat |-> at[i].lat, location_lon |-> at[i].lon]
            @@ EventKinds[i]]

LocatedPools ==
    { LocatedPool(at) : at \in UNION { [1..n -> Coordinates] : n \in 0..MaxLocatedEvents } }

\* The display options of the component, the map filter on or off.
DisplayOptions(filterByVisibleMapArea) ==
    Some([minVisibleEvents |-> Some(DEFAULT_MIN_VISIBLE_EVENTS),
          maxOverlappingEvents |-> Some(DEFAULT_MAX_OVERLAPPING_EVENTS),
          shortEventFraction |-> Null,
          maxEventSpanVisibleRatio |-> Some(DEFAULT_MAX_EVENT_SPAN_VISIBLE_RATIO),
          filterByVisibleMapArea |-> filterByVisibleMapArea])

\* The window of the widget.
WidgetWindows ==
    { Some([startMs |-> Jan1(1930), endMs |-> Jan1(1950)]),
      Some([startMs |-> Jan1(1942), endMs |-> Jan1(1944)]) }

InitTimeline ==
    /\ done = FALSE
    /\ op = "updateItemsForWindow"
    /\ ResolverIdle
    /\ CurvesIdle
    /\ events \in LocatedPools
    /\ visibleSpanMs = Null
    /\ visibleWindow \in WidgetWindows
    /\ options \in { DisplayOptions(f) : f \in BOOLEAN }
    /\ locals = Null
    /\ selected = <<>>
    /\ items = <<>>
    /\ mapBounds \in BoundsChoices
    /\ filtered = Null
    /\ currentItemIds = {}
    /\ widgetItems = Null
    /\ timers = 0
    /\ ClientIdle

\* updateItemsForWindow with this.timeline set: the pass over the events of
\* eventsForTimeline() in the window of the widget.
UpdateItemsForWindow ==
    /\ op = "updateItemsForWindow" /\ ~done
    /\ filtered' = Some(eventsForTimeline(events, Val(options), mapBounds))
    /\ IF Len(events) = 0
       THEN UNCHANGED <<visibleSpanMs, locals, selected, items, currentItemIds,
                        widgetItems, timers>>
       ELSE /\ visibleSpanMs' = Some(Val(visibleWindow).endMs - Val(visibleWindow).startMs)
            /\ locals' = Some(PipelineLocals(Val(filtered'), visibleSpanMs',
                                             visibleWindow, options))
            /\ selected' = SelectedOf(Val(locals'))
            /\ items' = Materialized(selected', visibleWindow,
                                     Val(locals').shortEventFraction)
            /\ currentItemIds' = IdsOf(items')
            /\ widgetItems' = Some(items')
            /\ timers' = timers + 1
    /\ done' = TRUE
    /\ UNCHANGED <<op, events, visibleWindow, options, mapBounds, resolverVars, curveVars,
                 clientVars>>

NextTimeline == UpdateItemsForWindow

SpecTimeline == InitTimeline /\ [][NextTimeline]_vars

----------------------------------------------------------------------------
(* TimelineComponent from its construction to after its destruction *)

\* The greatest number of applySelection timers waiting.
MaxTimers == 2

\* An event of the kind, with its id, at the latitude given.
ComponentEvent(id, kind, lat) ==
    [id |-> id, location_lat |-> Some(Finite(lat)), location_lon |-> Some(Finite(5))]
        @@ EventKinds[kind]

\* No events; a long range of category 1 and a point of category 12 inside
\* the map bounds with a range of no category outside them; one event
\* without a resolvable start.
EventLists ==
    { <<>>,
      << ComponentEvent(1, 1, 10), ComponentEvent(2, 2, 51), ComponentEvent(3, 3, 10) >>,
      << ComponentEvent(1, 5, 10) >> }

\* No categories; three categories with distinct ids, the second without a
\* name, the third of no event.
CategoryLists ==
    { <<>>,
      << [id |-> 12, name |-> Some(<<"B">>), wikidata_id |-> Some(<<"Q", "2">>)],
         [id |-> 1, name |-> Null, wikidata_id |-> Some(<<"Q", "1">>)],
         [id |-> 5, name |-> Some(<<"C">>), wikidata_id |-> Null] >> }

HighlightChoices == { Null, Some(2) }

\* The window the widget reports after the user has moved it.
MovedWindows ==
    { [startMs |-> Jan1(1930), endMs |-> Jan1(1950)],
      [startMs |-> Jan1(1943), endMs |-> Jan1(1944)] }

\* The day of new Date(): before the end of the events.
NowChoices == { Jan1(1944) }

\* endOfToday(): setHours(23, 59, 59, 999) of now, taken in UTC.
endOfToday(now) == endOfDay(now)

\* The window of the widget after setWindow(start, end), counted in whole
\* ticks: the starts and ends of events are whole ticks, so the comparisons
\* of eventOverlapsWindow come out as with the end to the millisecond.
WindowSet(start, end) == [startMs |-> start.tick, endMs |-> end.tick]

InitComponent ==
    /\ done = FALSE
    /\ op = "TimelineComponent"
    /\ ResolverIdle
    /\ CurvesIdle
    /\ events = <<>>
    /\ visibleSpanMs = Null
    /\ visibleWindow = Null
    /\ options \in { DisplayOptions(f) : f \in BOOLEAN }
    /\ locals = Null
    /\ selected = <<>>
    /\ items = <<>>
    /\ ComponentIdle
    /\ ClientIdle

otherThanComponent ==
    <<op, done, remembered, resolverVars, curveVars, serviceVars, appVars>>

\* The pass of eventsToTimelineItems over the filtered events with the span
\* and the window given, and timeline.setItems(items).
ShowItems(spanMs, window) ==
    /\ visibleSpanMs' = Some(spanMs)
    /\ visibleWindow' = Some(window)
    /\ locals' = Some(PipelineLocals(Val(filtered'), visibleSpanMs', visibleWindow',
                                     options'))
    /\ selected' = SelectedOf(Val(locals'))
    /\ items' = Materialized(selected', visibleWindow', Val(locals').shortEventFraction)
    /\ currentItemIds' = IdsOf(items')
    /\ widgetItems' = Some(items')

\* this.currentItemIds.clear(); this.timeline.setItems([])
ShowNothing ==
    /\ currentItemIds' = Cleared(currentItemIds)
    /\ widgetItems' = Some(<<>>)
    /\ UNCHANGED <<visibleSpanMs, visibleWindow, locals, selected, items>>

\* applyEvents, lines 182-195: the range of the filtered events is the
\* window of the pass, and the widget gets the range of the items, cut at
\* the end of today.
ShowRange(range) ==
    /\ ShowItems(Max(range.end.tick - range.start.tick, MIN_SPAN_MS),
                 [startMs |-> range.start.tick, endMs |-> range.end.tick])
    /\ \E now \in NowChoices :
          widgetWindow' =
              Some(WindowSet(Val(Coalesce(dateRangeFromItems(items'), Some(range))).start,
                             WindowEnd(Val(Coalesce(dateRangeFromItems(items'),
                                                    Some(range))).end,
                                       endOfToday(now))))

\* applyEvents(), the widget having the window windowBefore.
applyEvents(windowBefore) ==
    IF IsNull(timeline')
    THEN /\ widgetWindow' = windowBefore
         /\ UNCHANGED <<filtered, visibleSpanMs, visibleWindow, locals, selected, items,
                        currentItemIds, widgetItems, widgetGroups>>
    ELSE /\ filtered' = Some(eventsForTimeline(events', Val(options'), mapBounds'))
         /\ IF Len(events') = 0
            THEN /\ widgetGroups' = <<>>
                 /\ ShowNothing
                 /\ widgetWindow' = windowBefore
            ELSE /\ widgetGroups' = buildGroups(events', categories')
                 /\ IF IsNull(eventDateRange(Val(filtered')))
                    THEN ShowNothing /\ widgetWindow' = windowBefore
                    ELSE ShowRange(Val(eventDateRange(Val(filtered'))))

\* updateItemsForWindow(), the window of the widget being widgetWindow'; the
\* filtered list it computes before it returns early is dropped.
updateItemsForWindow ==
    /\ IF IsNull(timeline') \/ Len(events') = 0
       THEN UNCHANGED <<filtered, visibleSpanMs, visibleWindow, locals, selected, items,
                        currentItemIds, widgetItems>>
       ELSE /\ filtered' = Some(eventsForTimeline(events', Val(options'), mapBounds'))
            /\ ShowItems(Val(widgetWindow').endMs - Val(widgetWindow').startMs,
                         Val(widgetWindow'))
    /\ UNCHANGED widgetGroups

\* The timers applyEvents and updateItemsForWindow leave behind.
AppliedTimers == IF IsNull(timeline') THEN 0 ELSE 1

UpdatedTimers == IF IsNull(timeline') \/ Len(events') = 0 THEN 0 ELSE 1

\* scheduleApplySelection() n times, and whether the handler of this step
\* called a method of the widget.
Afterwards(n, called) ==
    /\ timers' = timers + n
    /\ timers' <= MaxTimers
    /\ calledAfterDestroy' = (calledAfterDestroy \/ (called /\ widget' = "destroyed"))

\* ngAfterViewInit(): without a container nothing happens; with one the
\* widget is created with no items and no groups, the four handlers are
\* registered and applyEvents runs.
NgAfterViewInit ==
    /\ widget = "none" /\ ~destroyed
    /\ \E container \in BOOLEAN :
          IF container
          THEN /\ timeline' = Some("widget")
               /\ widget' = "created"
               /\ listeners' = {"rangechanged", "itemover", "itemout", "click"}
          ELSE UNCHANGED <<timeline, widget, listeners>>
    /\ UNCHANGED <<events, categories, mapBounds, options, highlightedEventId,
                   widgetSelection, destroyed, otherThanComponent>>
    /\ IF IsNull(timeline')
       THEN applyEvents(widgetWindow)
       ELSE \E initial \in MovedWindows : applyEvents(Some(initial))
    /\ Afterwards(AppliedTimers, ~IsNull(timeline'))

\* The inputs that change together: one alone, or the events or the map
\* bounds along with the highlighted event.
ChangeSets ==
    { {"events"}, {"categories"}, {"mapBounds"}, {"highlightedEventId"},
      {"events", "highlightedEventId"}, {"mapBounds", "highlightedEventId"} }

\* The values an input can have after ngOnChanges names it: any while the
\* bindings of the component are there, the value it has once they are
\* torn down.
Bound(name, changes, choices, value) ==
    IF name \in changes /\ ~destroyed THEN choices ELSE {value}

\* ngOnChanges(changes), before the widget is created, while it is there,
\* or afterwards.
NgOnChanges ==
    \E changes \in ChangeSets :
        /\ events' \in Bound("events", changes, EventLists, events)
        /\ categories' \in Bound("categories", changes, CategoryLists, categories)
        /\ mapBounds' \in Bound("mapBounds", changes, BoundsChoices, mapBounds)
        /\ highlightedEventId' \in Bound("highlightedEventId", changes,
                                          HighlightChoices \ {highlightedEventId},
                                          highlightedEventId)
        /\ UNCHANGED <<timeline, widget, listeners, options, widgetSelection, destroyed,
                       otherThanComponent>>
        /\ IF "events" \in changes \/ "categories" \in changes
           THEN /\ applyEvents(widgetWindow)
                /\ Afterwards(AppliedTimers
                                + (IF "highlightedEventId" \in changes THEN 1 ELSE 0),
                              ~IsNull(timeline'))
           ELSE IF "mapBounds" \in changes
           THEN /\ UNCHANGED widgetWindow
                /\ updateItemsForWindow
                /\ Afterwards(UpdatedTimers
                                + (IF "highlightedEventId" \in changes THEN 1 ELSE 0),
                              UpdatedTimers = 1)
           ELSE /\ UNCHANGED <<filtered, visibleSpanMs, visibleWindow, locals, selected,
                               items, currentItemIds, widgetItems, widgetGroups,
                               widgetWindow>>
                /\ Afterwards(1, FALSE)

\* The widget reports 'rangechanged' after its window has changed:
\* rangeChangedHandler runs updateItemsForWindow.
RangeChanged ==
    /\ widget = "created" /\ "rangechanged" \in listeners
    /\ \E moved \in MovedWindows \cup (IF IsNull(widgetWindow) THEN {} ELSE {Val(widgetWindow)}) :
          widgetWindow' = Some(moved)
    /\ UNCHANGED <<events, categories, mapBounds, options, highlightedEventId, timeline,
                   widget, listeners, widgetSelection, destroyed, otherThanComponent>>
    /\ updateItemsForWindow
    /\ Afterwards(UpdatedTimers, UpdatedTimers = 1)

\* onDisplayOptionsChange(options)
OnDisplayOptionsChange ==
    /\ options' \in { DisplayOptions(f) : f \in BOOLEAN }
    /\ UNCHANGED <<events, categories, mapBounds, highlightedEventId, timeline, widget,
                   listeners, widgetSelection, widgetWindow, destroyed,
                   otherThanComponent>>
    /\ updateItemsForWindow
    /\ Afterwards(UpdatedTimers, UpdatedTimers = 1)

\* A timer of scheduleApplySelection runs applySelection().
ApplySelection ==
    /\ timers > 0
    /\ timers' = timers - 1
    /\ widgetSelection' = IF IsNull(timeline) THEN widgetSelection
                          ELSE SelectionFor(highlightedEventId, currentItemIds)
    /\ calledAfterDestroy' = (calledAfterDestroy
                                \/ (~IsNull(timeline) /\ widget = "destroyed"))
    /\ UNCHANGED <<events, categories, mapBounds, options, highlightedEventId, timeline,
                   widget, listeners, widgetGroups, widgetWindow, destroyed, filtered,
                   visibleSpanMs, visibleWindow, locals, selected, items, currentItemIds,
                   widgetItems, otherThanComponent>>

\* ngOnDestroy(): the handlers are taken off, the widget is destroyed and
\* the reference to it dropped.
NgOnDestroy ==
    /\ ~destroyed
    /\ destroyed' = TRUE
    /\ listeners' = {}
    /\ widget' = IF IsNull(timeline) THEN widget ELSE "destroyed"
    /\ timeline' = AfterDestroy(timeline)
    /\ UNCHANGED <<events, categories, mapBounds, options, highlightedEventId,
                   widgetGroups, widgetSelection, widgetWindow, calledAfterDestroy,
                   filtered, visibleSpanMs, visibleWindow, locals, selected, items,
                   currentItemIds, widgetItems, timers, otherThanComponent>>

NextComponent ==
    \/ NgAfterViewInit
    \/ NgOnChanges
    \/ RangeChanged
    \/ OnDisplayOptionsChange
    \/ ApplySelection
    \/ NgOnDestroy

SpecComponent == InitComponent /\ [][NextComponent]_vars

----------------------------------------------------------------------------
(* Properties of the geographic filter, checked under SpecTimeline *)

WindowUpdated == op = "updateItemsForWindow" /\ done

\* The filter is on and map bounds are supplied.
FilterActive == Val(options).filterByVisibleMapArea /\ ~IsNull(mapBounds)

\* Finite latitude and longitude inside the rectangle, edges included.
InsideBounds(e) ==
    /\ e.location_lat # Null /\ e.location_lon # Null
    /\ Val(e.location_lat).finite /\ Val(e.location_lon).finite
    /\ Val(mapBounds).south <= Val(e.location_lat).value
    /\ Val(e.location_lat).value <= Val(mapBounds).north
    /\ Val(mapBounds).west <= Val(e.location_lon).value
    /\ Val(e.location_lon).value <= Val(mapBounds).east

Unlocated(e) ==
    \/ e.location_lat = Null \/ e.location_lon = Null
    \/ ~Val(e.location_lat).finite \/ ~Val(e.location_lon).finite

\* evts is the list of the events of all that satisfy Keep, in their order.
ExactlyThose(evts, all, kept) ==
    /\ Len(evts) = Cardinality(kept)
    /\ \A k \in 1..Len(evts) : evts[k] \in { all[i] : i \in kept }
    /\ \A k \in 1..(Len(evts) - 1) : evts[k].id < evts[k + 1].id

\* C12: with the filter on and map bounds supplied, the events handed to the
\* pipeline are exactly those with finite coordinates inside the rectangle,
\* edges included, and an event without finite coordinates is not among
\* them; otherwise every event is passed through unchanged.
C12_GeographicFilter ==
    WindowUpdated =>
        /\ IF FilterActive
           THEN /\ ExactlyThose(Val(filtered), events,
                                {i \in 1..Len(events) : InsideBounds(events[i])})
                /\ \A k \in 1..Len(Val(filtered)) : ~Unlocated(Val(filtered)[k])
           ELSE Val(filtered) = events
        /\ Len(events) > 0 =>
              /\ IdsOf(Val(locals).pool) \subseteq IdsOf(Val(filtered))
              /\ ItemIds \subseteq IdsOf(Val(filtered))

\* The filter is active; an event on the northern edge is kept and shown,
\* and one with a latitude that is not finite is dropped.
C12_Witness ==
    /\ WindowUpdated /\ FilterActive
    /\ Len(events) = 2
    /\ events[1].location_lat = Some(Finite(50))
    /\ events[2].location_lat = Some(NaN)
    /\ Val(filtered) = <<events[1]>>
    /\ ItemIds = {1}

\* The ids of the items of a pass over every event, the filter left out.
ShownUnfiltered == IdsOf(eventsToTimelineItems(events, visibleSpanMs, visibleWindow, options))

StillShown(unfiltered) ==
    \A i \in 1..Len(events) :
        (Unlocated(events[i]) /\ events[i].id \in unfiltered) => events[i].id \in ItemIds

\* C13 as stated: an event without finite coordinates that a pass over every
\* event selects is among the items, whatever the filter setting and the
\* map bounds.
C13_UnlocatedStillShown ==
    (WindowUpdated /\ Len(events) > 0) => StillShown(ShownUnfiltered)

ShownUnlessFiltered(unfiltered) ==
    \A i \in 1..Len(events) :
        Unlocated(events[i]) =>
            IF FilterActive
            THEN events[i].id \notin ItemIds /\ events[i].id \notin currentItemIds
            ELSE events[i].id \in ItemIds <=> events[i].id \in unfiltered

\* C13: with the filter off or no map bounds, an event without finite
\* coordinates is among the items exactly when a pass over every event
\* selects it; with the filter on and map bounds supplied it is never among
\* the items.
C13_UnlocatedShownUnlessFiltered ==
    (WindowUpdated /\ Len(events) > 0) => ShownUnlessFiltered(ShownUnfiltered)

\* The filter is active; the second event has no longitude, a pass over
\* every event selects it, and the items are those of the first event only.
C13_Witness ==
    /\ WindowUpdated /\ FilterActive
    /\ Len(events) = 2
    /\ events[2].location_lon = Null
    /\ 2 \in ShownUnfiltered
    /\ ItemIds = {1}

----------------------------------------------------------------------------
(* Properties of the selector and of the pipeline, checked under Spec *)

PipelineDone == op = "eventsToTimelineItems" /\ done

\* The concurrency bound K of the call.
BoundK ==
    IF op = "eventsToTimelineItems"
    THEN OptionOr(options, "maxOverlappingEvents", DEFAULT_MAX_OVERLAPPING_EVENTS)
    ELSE Val(Val(options).maxOverlappingEvents)

\* The interval of an event with resolved start and end: its start, and its
\* end clamped to max(start, end).
Interval(start, end) ==
    [start |-> Val(start), end |-> Max(Val(start), Val(Coalesce(end, start)))]

\* The intervals of the events evts.
Intervals(evts) ==
    [i \in 1..Len(evts) |-> Interval(eventStartDate(evts[i]), eventEndDate(evts[i]))]

EndPoints(ivs) == UNION { {ivs[i].start, ivs[i].end} : i \in 1..Len(ivs) }

\* Twice the instants to look at: every end point of an interval and the
\* instant halfway between any two of them, one in every gap between
\* neighbouring end points.
Doubled(ends) == { a + b : a \in ends, b \in ends }

\* The number of intervals covering the instant t2 / 2 inclusively.
Coverage(ivs, t2) ==
    Cardinality({ i \in 1..Len(ivs) : 2 * ivs[i].start <= t2 /\ t2 <= 2 * ivs[i].end })

\* No instant looked at is covered by more than k of the intervals.
CoverageWithin(ivs, k) ==
    \A t2 \in Doubled(EndPoints(ivs)) : Coverage(ivs, t2) <= k

\* Some instant that is no end point is covered by exactly k of the intervals.
CoveredBetweenEndPoints(ivs, k) ==
    \E t2 \in Doubled(EndPoints(ivs)) :
        /\ Coverage(ivs, t2) = k
        /\ \A a \in EndPoints(ivs) : t2 # 2 * a

SelectedIds == { selected[i].id : i \in 1..Len(selected) }

\* C1: no instant, end point of an interval or not, is covered inclusively
\* by more than K = maxOverlappingEvents of the events the selector returns,
\* and the items eventsToTimelineItems returns are those events.
C1_ConcurrencyBound ==
    done =>
        /\ CoverageWithin(Intervals(selected), BoundK)
        /\ BoundK < 1 => selected = <<>>
        /\ PipelineDone =>
              /\ Len(items) = Len(selected)
              /\ \A i \in 1..Len(items) : items[i].id = selected[i].id

\* A pipeline call with K = 2 in which a candidate with an extent was turned
\* down, and an instant that is no end point is covered by exactly 2 of the
\* admitted intervals.
C1_Witness ==
    /\ PipelineDone
    /\ BoundK = 2
    /\ \E i \in 1..Len(Val(locals).toShow) :
          /\ ~IsNull(timeRangeForEvent(Val(locals).toShow[i]))
          /\ Val(locals).toShow[i].id \notin ItemIds
    /\ CoveredBetweenEndPoints(Intervals(selected), 2)

Windowed == PipelineDone /\ ~IsNull(visibleWindow)

\* floor = min(minVisibleEvents, events left by the window-overlap and
\* too-broad filters), when a window is supplied.
Floor ==
    IF ~IsNull(visibleWindow)
    THEN Min(Val(locals).minVisibleEvents, Len(Val(locals).pool))
    ELSE 0

\* C2 (as stated): with a visible window, eventsToTimelineItems returns at
\* least floor items: the floor takes priority over the concurrency cap.
C2_FloorMet == Windowed => Len(items) >= Floor

\* C2 (amended): with a visible window, the candidates handed to the
\* selector number at least floor, and at least min(floor, K) items are
\* returned; the concurrency cap takes priority over the floor.
C2_FloorBeforeSelector ==
    Windowed =>
        /\ Len(Val(locals).toShow) >= Floor
        /\ Len(items) >= Min(Floor, BoundK)

\* The threshold leaves fewer candidates than the floor, the backfill brings
\* them up to the floor, and the cap K >= 1 then keeps the result below it.
C2_Witness ==
    /\ Windowed
    /\ Len(Val(locals).aboveThreshold) < Floor
    /\ Len(Val(locals).toShow) = Floor
    /\ BoundK >= 1
    /\ Len(items) = BoundK
    /\ Len(items) < Floor

\* C3: the number of items never exceeds max(capacity, floor), the capacity
\* being maxEventsForVisibleSpan(visibleSpanMs, minVisibleEvents); without a
\* visible span the capacity is the number of events passed in.
C3_CapacityBound ==
    PipelineDone =>
        LET capacity ==
              IF IsNull(visibleSpanMs) THEN Len(events)
              ELSE maxEventsForVisibleSpan(Val(visibleSpanMs),
                                           Val(locals).minVisibleEvents)
        IN Len(items) <= Max(capacity, Floor)

\* More events pass the threshold than the capacity admits, the floor is
\* below the capacity, and exactly capacity items are returned.
C3_Witness ==
    /\ PipelineDone
    /\ ~IsNull(visibleSpanMs)
    /\ Len(Val(locals).aboveThreshold) > Val(locals).maxEvents
    /\ Floor < Val(locals).maxEvents
    /\ Len(items) = Val(locals).maxEvents

\* An event has a resolvable start: with start_time and end_time both
\* present, start_time resolves; otherwise one of the three fields does.
Resolvable(e) ==
    IF HasValue(e.start_time) /\ HasValue(e.end_time)
    THEN ~IsNull(parseEventTime(e.start_time))
    ELSE \/ ~IsNull(parseEventTime(e.start_time))
         \/ ~IsNull(parseEventTime(e.point_in_time))
         \/ ~IsNull(parseEventTime(e.end_time))

\* C9: every event the selector admits and every item the pipeline returns
\* belongs to an event of the input with a resolvable start; an event
\* without one appears in neither, in any mode.
C9_OnlyResolvableAdmitted ==
    done =>
        \A i \in 1..Len(events) :
            ~Resolvable(events[i]) =>
                /\ events[i].id \notin ItemIds
                /\ events[i].id \notin SelectedIds

\* An event without a resolvable start was among the candidates handed to
\* the selector, and other events were returned.
C9_Witness ==
    /\ PipelineDone
    /\ \E i \in 1..Len(Val(locals).toShow) : ~Resolvable(Val(locals).toShow[i])
    /\ \E i \in 1..Len(events) : ~Resolvable(events[i]) /\ events[i].id \notin ItemIds
    /\ Len(items) >= 1

\* The resolved extent of e, a start and an end, overlaps the window
\* inclusively: start <= windowEnd and end >= windowStart.
ExtentOverlaps(start, end, window) ==
    /\ ~IsNull(start)
    /\ Val(start) <= window.endMs
    /\ Val(Coalesce(end, start)) >= window.startMs

InWindow(e) == ExtentOverlaps(eventStartDate(e), eventEndDate(e), Val(visibleWindow))

\* The threshold and the capacity left fewer candidates than the floor, and
\* the candidates were taken from the whole pool instead.
Backfilled ==
    /\ Val(locals).minToShow > 0
    /\ Len(Val(locals).topEvents) < Val(locals).minToShow

\* The span for which events are too broad: known and above 0.
SpanLimits == ~IsNull(visibleSpanMs) /\ Val(visibleSpanMs) > 0

\* The duration end - start of e exceeds maxEventSpanVisibleRatio times the
\* visible span.
ExceedsSpan(iv, ratio, spanMs) == iv.end - iv.start > ratio * spanMs

TooBroad(e) ==
    /\ ~IsNull(eventStartDate(e))
    /\ ExceedsSpan(Interval(eventStartDate(e), eventEndDate(e)),
                   Val(locals).maxEventSpanVisibleRatio, Val(visibleSpanMs))

\* C14: with a visible window, every item, and every candidate of the pool
\* and of the floor and backfill, belongs to an event whose resolved extent
\* overlaps the window inclusively; without a window no event is left out
\* of the pool except one too broad for a visible span above 0.
C14_WindowOverlap ==
    PipelineDone =>
        \A i \in 1..Len(events) :
            IF ~IsNull(visibleWindow)
            THEN (\/ events[i].id \in ItemIds
                  \/ events[i].id \in IdsOf(Val(locals).toShow)
                  \/ events[i].id \in IdsOf(Val(locals).pool)) => InWindow(events[i])
            ELSE events[i].id \notin IdsOf(Val(locals).pool) =>
                    (SpanLimits /\ TooBroad(events[i]))

\* A window is supplied, the backfill fired and returned items, and an
\* event that resolves to an extent wholly outside the window is not among
\* them.
C14_Witness ==
    /\ Windowed
    /\ Backfilled
    /\ Len(items) >= 1
    /\ \E i \in 1..Len(events) :
          /\ Resolvable(events[i])
          /\ ~InWindow(events[i])
          /\ events[i].id \notin ItemIds

\* C15 as stated: whenever a visible span is known, no item belongs to an
\* event whose duration exceeds maxEventSpanVisibleRatio x visibleSpanMs.
C15_TooBroadExcluded ==
    (PipelineDone /\ ~IsNull(visibleSpanMs)) =>
        \A i \in 1..Len(events) : events[i].id \in ItemIds => ~TooBroad(events[i])

\* C15: whenever a visible span above 0 is known, no item belongs to an
\* event whose duration exceeds maxEventSpanVisibleRatio x visibleSpanMs,
\* and no such event is in the pool that is ranked or among the candidates
\* of the floor and its backfill.
C15_TooBroadExcludedForPositiveSpan ==
    (PipelineDone /\ SpanLimits) =>
        \A i \in 1..Len(events) :
            TooBroad(events[i]) =>
                /\ events[i].id \notin ItemIds
                /\ events[i].id \notin IdsOf(Val(locals).pool)
                /\ events[i].id \notin IdsOf(Val(locals).toShow)

\* The backfill fired and returned fewer items than minVisibleEvents, while
\* an event overlapping the window with the highest score, too broad for the
\* span, is not among them.
C15_Witness ==
    /\ Windowed /\ SpanLimits
    /\ Backfilled
    /\ Len(items) >= 1
    /\ Len(items) < Val(locals).minVisibleEvents
    /\ \E i \in 1..Len(events) :
          /\ InWindow(events[i])
          /\ TooBroad(events[i])
          /\ events[i].importance_score = Some(9)
          /\ events[i].id \notin ItemIds

\* m = minImportance(visibleSpanMs), 0 without a visible span.
ThresholdM ==
    IF IsNull(visibleSpanMs) THEN 0 ELSE minImportanceForVisibleSpan(Val(visibleSpanMs))

\* The score of e meets the threshold m, a missing score counted as 0.
MeetsThreshold(e, m) ==
    IF e.importance_score = Null THEN 0 >= m
    ELSE Importance(Val(e.importance_score)) >= m

MeetingThreshold(evts, m) ==
    { evts[i].id : i \in { j \in 1..Len(evts) : MeetsThreshold(evts[j], m) } }

\* C16: the pool is filtered to the events whose score, a missing score
\* counted as 0, is >= m inclusively; whenever at least floor events meet
\* the threshold every item has a score >= m, and an event below m is among
\* the items only when the backfill fired.
C16_ThresholdFilter ==
    PipelineDone =>
        /\ IdsOf(Val(locals).aboveThreshold) = MeetingThreshold(Val(locals).pool, ThresholdM)
        /\ Len(Val(locals).aboveThreshold) >= Floor =>
              ItemIds \subseteq MeetingThreshold(events, ThresholdM)
        /\ ~(ItemIds \subseteq MeetingThreshold(events, ThresholdM)) => Backfilled

\* The threshold is above 0, the floor is at least 1 and met by the events
\* at or above the threshold, and an event of the pool below the threshold
\* is not among the items.
C16_Witness ==
    /\ Windowed
    /\ ThresholdM > 0
    /\ Floor >= 1
    /\ Len(Val(locals).aboveThreshold) >= Floor
    /\ Len(items) >= 1
    /\ \E i \in 1..Len(Val(locals).pool) :
          /\ ~MeetsThreshold(Val(locals).pool[i], ThresholdM)
          /\ Val(locals).pool[i].id \notin ItemIds

Scored(e) == e.importance_score # Null

\* In the list evts no event without a score stands before one with a score.
UnscoredLast(evts) ==
    \A i \in 1..Len(evts) : \A j \in (i + 1)..Len(evts) :
        Scored(evts[j]) => Scored(evts[i])

\* Whenever an event without a score is among taken, every event of from
\* with a score is.
ScoredTakenFirst(taken, from) ==
    (\E i \in 1..Len(taken) : ~Scored(taken[i])) =>
        \A j \in 1..Len(from) : Scored(from[j]) => from[j].id \in IdsOf(taken)

\* The events with a score among evts, in their order.
ScoredOf(evts) == Filter(evts, {i \in 1..Len(evts) : Scored(evts[i])})

\* The candidates handed to the selector.
Candidates == IF op = "eventsToTimelineItems" THEN Val(locals).toShow ELSE events

\* Every candidate with a score and an extent that the selector turned down
\* exceeds the bound together with the selected events that have a score.
ScoredTurnedDownByScored(candidates, scoredSelected) ==
    \A i \in 1..Len(candidates) :
        (/\ Scored(candidates[i])
         /\ ~IsNull(timeRangeForEvent(candidates[i]))
         /\ candidates[i].id \notin SelectedIds) =>
            ~CoverageWithin(Intervals(Append(scoredSelected, candidates[i])), BoundK)

\* C17: in the ranked candidates, the backfilled candidates and the
\* selector's order of admission an event without a score stands after every
\* event with one; the capacity cut and the backfill take no event without
\* a score while leaving out one with a score, and the selector turns down
\* an event with a score only for the selected events that have one.
C17_UnscoredRankLowest ==
    done =>
        /\ UnscoredLast(selected)
        /\ ScoredTurnedDownByScored(Candidates, ScoredOf(selected))
        /\ PipelineDone =>
              /\ UnscoredLast(Val(locals).topEvents)
              /\ UnscoredLast(Val(locals).toShow)
              /\ ScoredTakenFirst(Val(locals).topEvents, Val(locals).aboveThreshold)
              /\ ScoredTakenFirst(Val(locals).toShow,
                                  IF Backfilled THEN Val(locals).pool
                                  ELSE Val(locals).aboveThreshold)

\* The candidates were cut: an event of the pool without a score is left
\* out, and an event with the score 0 that stands after it in the input is
\* among the items.
C17_Witness ==
    /\ PipelineDone
    /\ \E i \in 1..Len(Val(locals).pool) : \E j \in 1..Len(Val(locals).pool) :
          /\ i < j
          /\ ~Scored(Val(locals).pool[i])
          /\ Val(locals).pool[i].id \notin IdsOf(Val(locals).toShow)
          /\ Val(locals).pool[j].importance_score = Some(0)
          /\ Val(locals).pool[j].id \in ItemIds

\* The rank of a score: a missing score below every score.
ScoreRank(e) == IF e.importance_score = Null THEN 0 - 1 ELSE Val(e.importance_score)

\* The candidate at position i is processed before the one at position j:
\* its score is higher, or the scores are equal and it stands first.
RanksBefore(cands, i, j) ==
    \/ ScoreRank(cands[i]) > ScoreRank(cands[j])
    \/ ScoreRank(cands[i]) = ScoreRank(cands[j]) /\ i < j

PosIn(cands, id) == CHOOSE k \in 1..Len(cands) : cands[k].id = id

HasExtent(e) == ~IsNull(eventStartDate(e))

\* The selected events processed before the candidate at position k.
AdmittedBefore(cands, k) ==
    Filter(selected, {i \in 1..Len(selected) :
                        RanksBefore(cands, PosIn(cands, selected[i].id), k)})

\* No end point of the intervals is covered by more than k of them.
EndPointCoverageWithin(ivs, k) ==
    \A a \in EndPoints(ivs) : Coverage(ivs, 2 * a) <= k

\* C23: the selected events stand in descending order of score, equal scores
\* in their original order, and a candidate with an extent is selected
\* exactly when no end point of the intervals admitted before it and of its
\* own is covered by more than maxConcurrent of them: what was admitted
\* before a candidate stays admitted, what was turned down stays out.
C23_GreedyInRankOrder ==
    done =>
        /\ \A i \in 1..Len(selected) : \A j \in (i + 1)..Len(selected) :
              RanksBefore(Candidates, PosIn(Candidates, selected[i].id),
                          PosIn(Candidates, selected[j].id))
        /\ \A k \in 1..Len(Candidates) :
              HasExtent(Candidates[k]) =>
                  (Candidates[k].id \in SelectedIds <=>
                      EndPointCoverageWithin(
                          Intervals(Append(AdmittedBefore(Candidates, k), Candidates[k])),
                          BoundK))

\* With K = 2 two candidates of equal score are selected in their original
\* order, the one with the greater start first, and a candidate with an
\* extent is turned down.
C23_Witness ==
    /\ done /\ op = "selectEventsUpToMaxConcurrent"
    /\ BoundK = 2
    /\ \E i \in 1..Len(selected) : \E j \in 1..Len(selected) :
          /\ i < j
          /\ ScoreRank(selected[i]) = ScoreRank(selected[j])
          /\ selected[i].id < selected[j].id
          /\ Val(eventStartDate(selected[i])) > Val(eventStartDate(selected[j]))
    /\ \E k \in 1..Len(events) : HasExtent(events[k]) /\ events[k].id \notin SelectedIds

\* C30: every candidate with an extent that was turned down would, added to
\* the selected events, have some instant covered by more than maxConcurrent
\* intervals; and for maxConcurrent >= 1 the candidate with an extent that
\* ranks before every other one with an extent is selected.
C30_SelectionMaximal ==
    done =>
        \A k \in 1..Len(Candidates) :
            HasExtent(Candidates[k]) =>
                /\ Candidates[k].id \notin SelectedIds =>
                      ~CoverageWithin(Intervals(Append(selected, Candidates[k])), BoundK)
                /\ (/\ BoundK >= 1
                     /\ \A j \in 1..Len(Candidates) :
                           (HasExtent(Candidates[j]) /\ j # k) =>
                               RanksBefore(Candidates, k, j)) =>
                      Candidates[k].id \in SelectedIds

\* With K = 1 a candidate without an extent ranks first, the first with an
\* extent is selected, two candidates are turned down and a candidate
\* ranking after them, clear of the selected intervals, is selected.
C30_Witness ==
    /\ done /\ op = "selectEventsUpToMaxConcurrent"
    /\ BoundK = 1
    /\ \E k \in 1..Len(events) :
          /\ ~HasExtent(events[k])
          /\ \A j \in 1..Len(events) : j # k => RanksBefore(events, k, j)
    /\ Len(selected) >= 2
    /\ \E a \in 1..Len(events) : \E b \in 1..Len(events) :
          /\ HasExtent(events[a]) /\ events[a].id \notin SelectedIds
          /\ RanksBefore(events, a, b)
          /\ events[b].id \in SelectedIds

----------------------------------------------------------------------------
(* Determinism of the selector and of the pipeline, under SpecRepeat *)

\* The call that has returned has the function and the arguments of the
\* call remembered.
SameCall ==
    /\ done /\ ~IsNull(remembered)
    /\ Val(remembered).op = op
    /\ Val(remembered).events = events
    /\ Val(remembered).visibleSpanMs = visibleSpanMs
    /\ Val(remembered).visibleWindow = visibleWindow
    /\ Val(remembered).options = options

----------------------------------------------------------------------------
(* Properties of EventsService.getEvents, checked under SpecService *)

\* The events of the pages 1..n, in the order of the pages.
RECURSIVE ResultsUpTo(_)
ResultsUpTo(n) ==
    IF n = 0 THEN <<>> ELSE ResultsUpTo(n - 1) \o serverPages[n].results

\* The responses that have arrived.
Arrived == Len(httpRequests) - Cardinality(httpPending)

\* C24: the pages are requested from the first on, each after the response
\* before it has arrived and only when that response links to it, never two
\* at a time; one list is emitted, when the page without a link has arrived,
\* and it is the events of all pages in the order of the pages; nothing is
\* emitted before, and nothing when a request has failed.
C24_OneListAfterLastPage ==
    /\ Cardinality(httpPending) <= 1
    /\ \A i \in 1..Len(httpRequests) :
          /\ httpRequests[i].url = PagePath(i)
          /\ i > 1 => Truthy(serverPages[i - 1].next)
    /\ subscription = "active" => (emitted = <<>> /\ acc = ResultsUpTo(Arrived))
    /\ subscription = "error" => emitted = <<>>
    /\ subscription = "complete" =>
          /\ Len(httpRequests) = Len(serverPages)
          /\ httpPending = {}
          /\ emitted = << ResultsUpTo(Len(serverPages)) >>
    /\ subscription = "none" => (emitted = <<>> /\ httpRequests = <<>>)

\* Three pages linked by absolute URLs, the first and the last with events,
\* have arrived and their events are emitted as one list.
C24_Witness ==
    /\ subscription = "complete"
    /\ Len(serverPages) = 3
    /\ SchemeEnd(Val(serverPages[1].next)) > 0
    /\ Len(serverPages[1].results) = 2
    /\ Len(serverPages[3].results) = 1
    /\ Len(emitted) = 1
    /\ Len(emitted[1]) >= 3

----------------------------------------------------------------------------
(* Properties of App.loadEvents, checked under SpecApp *)

\* The request requestId is answered in this step, with a list or an error.
Answered(requestId) ==
    /\ loads[requestId].outcome = "pending"
    /\ loads'[requestId].outcome \in {"next", "error"}

\* Once the latest request is answered, events is its list, [] after an
\* error.
LatestShown ==
    (loadRequestId >= 1 /\ loads[loadRequestId].outcome \in {"next", "error"}) =>
        appEvents = loads[loadRequestId].events

\* The answer to a request that is not the latest leaves events and
\* selectedEventId as they are, and events changes with the answer to the
\* latest request only.
OnlyLatestWrites ==
    /\ \A requestId \in DOMAIN loads :
          (Answered(requestId) /\ requestId # loadRequestId) =>
              (appEvents' = appEvents /\ selectedEventId' = selectedEventId)
    /\ appEvents' # appEvents =>
          (loadRequestId >= 1 /\ Answered(loadRequestId) /\ loadRequestId' = loadRequestId)

\* C25: whatever the order of the calls of loadEvents and of the answers,
\* only the answer to the request issued last writes events and resets
\* selectedEventId, the answer to an earlier request changes neither, and
\* once the latest request is answered events is what it answered.
C25_StaleResponsesIgnored == []LatestShown /\ [][OnlyLatestWrites]_vars

\* The latest of three requests was answered with two events, an event was
\* then selected, and the answer to the first request, another list, has
\* arrived after that: events and the selection are those of the latest.
C25_Witness ==
    /\ loadRequestId = 3
    /\ loads[3].outcome = "next"
    /\ Len(loads[3].events) = 2
    /\ loads[1].outcome = "next"
    /\ Len(loads[1].events) = 1
    /\ loads[2].outcome = "pending"
    /\ appEvents = loads[3].events
    /\ selectedEventId = Some(2)

----------------------------------------------------------------------------
(* Properties of TimelineComponent, checked under SpecComponent *)

\* The ids of the items the widget displays.
DisplayedIds == IF IsNull(widgetItems) THEN {} ELSE IdsOf(Val(widgetItems))

\* C27: once the widget is created, currentItemIds is exactly the set of
\* the ids of the items last given to timeline.setItems, whichever path set
\* them: no events, a date range, no date range, or a new window.
C27_IdsOfItemsSet ==
    widget # "none" => (~IsNull(widgetItems) /\ currentItemIds = DisplayedIds)

\* The three events are there and a window of one year has taken the long
\* one off the display.
C27_Witness ==
    /\ widget = "created"
    /\ Len(events) = 3
    /\ ~IsNull(visibleWindow)
    /\ Val(visibleWindow) = [startMs |-> Jan1(1943), endMs |-> Jan1(1944)]
    /\ currentItemIds = {2, 3}
    /\ Len(Val(widgetItems)) = 2

\* A step that changes the items displayed or the highlighted event leaves
\* one more timer of applySelection waiting.
ChangeSchedules ==
    (widgetItems' # widgetItems \/ highlightedEventId' # highlightedEventId)
        => timers' > timers

\* A timer that runs while the widget is there selects the highlighted event
\* when it is displayed, and nothing otherwise.
TimerSelects ==
    (timers' < timers /\ ~IsNull(timeline))
        => widgetSelection' = IF /\ ~IsNull(highlightedEventId)
                                 /\ Val(highlightedEventId) \in currentItemIds
                              THEN <<Val(highlightedEventId)>>
                              ELSE <<>>

\* With no timer waiting, every selected id is the highlighted one and is
\* among the items displayed.
SelectionDisplayed ==
    (timers = 0 /\ widget = "created")
        => \A i \in 1..Len(widgetSelection) :
              /\ widgetSelection[i] \in DisplayedIds
              /\ highlightedEventId = Some(widgetSelection[i])

\* C26: every change of the items displayed and of highlightedEventId
\* schedules applySelection; applySelection selects highlightedEventId when
\* it is in currentItemIds and nothing otherwise; and once the timers have
\* all run the widget has no selected item that is not displayed.
C26_SelectionFollowsItems ==
    /\ []SelectionDisplayed
    /\ [][ChangeSchedules /\ TimerSelects]_vars

\* The highlighted event is one the map bounds keep off the display while
\* others are displayed, and the last timer has left nothing selected.
C26_Witness ==
    /\ widget = "created"
    /\ timers = 0
    /\ highlightedEventId = Some(2)
    /\ Len(events) = 3
    /\ 2 \notin DisplayedIds
    /\ DisplayedIds # {}
    /\ widgetSelection = <<>>

\* C28: after ngOnDestroy the reference to the widget is null and stays
\* null, its handlers are off, and no later timer, ngOnChanges or
\* onDisplayOptionsChange calls a method of the destroyed widget.
C28_NothingAfterDestroy ==
    destroyed => (timeline = Null /\ listeners = {} /\ ~calledAfterDestroy)

\* The widget was destroyed with a timer waiting: the highlighted event is
\* among the items, the timers have all run, and it was never selected.
C28_Witness ==
    /\ widget = "destroyed"
    /\ timers = 0
    /\ highlightedEventId = Some(2)
    /\ 2 \in currentItemIds
    /\ widgetSelection = <<>>

\* The ids of the groups the widget has.
GroupIds == { widgetGroups[i].id : i \in 1..Len(widgetGroups) }

\* The group key of an event: its category, or 'uncategorized'.
GroupKey(e) ==
    IF IsNull(e.category_id) THEN UNCATEGORIZED_GROUP_ID
    ELSE NumberToString(Val(e.category_id))

\* C29: every item the widget has is in one of the groups the widget has;
\* the groups are those of the categories of all the events, the ones
\* outside the map bounds too, with 'uncategorized' when an event has no
\* category; and no two groups have the same id.
C29_ItemsInGroups ==
    widget = "created" =>
        /\ \A i \in 1..Len(Val(widgetItems)) : Val(widgetItems)[i].group \in GroupIds
        /\ GroupIds = { GroupKey(events[i]) : i \in 1..Len(events) }
        /\ \A i, j \in 1..Len(widgetGroups) :
              widgetGroups[i].id = widgetGroups[j].id => i = j

\* Three groups, one of them 'uncategorized' for an event that the map
\* bounds keep off the display, and two items displayed.
C29_Witness ==
    /\ widget = "created"
    /\ Len(widgetGroups) = 3
    /\ UNCATEGORIZED_GROUP_ID \in GroupIds
    /\ Len(Val(widgetItems)) = 2
    /\ 2 \notin DisplayedIds
    /\ Len(categories) = 3

----------------------------------------------------------------------------
(* Properties of labels, points and ranges, checked under SpecLabels *)

\* The width of the visible window, in days.
WindowDays == (Val(visibleWindow).endMs - Val(visibleWindow).startMs) \div MIN_SPAN_MS

PositiveWindow == ~IsNull(visibleWindow) /\ WindowDays > 0

\* shortEventFraction, in hundredths.
FractionHundredths ==
    IF options = Null \/ Val(options).shortEventFraction = Null THEN 5
    ELSE Val(Val(options).shortEventFraction)

\* The event an item was made of.
EventOfItem(it) == CHOOSE e \in { events[i] : i \in 1..Len(events) } : e.id = it.id

\* The end-of-day extension applies: no end_time, and the end is missing or
\* at the start.
Extended(e, start, end) ==
    (e.end_time = Null \/ Val(e.end_time).value = <<>>) /\ (end = Null \/ end = start)

\* The display duration of an event in whole days, less lessMs milliseconds:
\* one day less a millisecond with the end-of-day extension, and otherwise
\* the days from the start to the end, 0 for an end before the start.
DurationOf(e, start, end) ==
    IF Extended(e, start, end) THEN [days |-> 1, lessMs |-> 1]
    ELSE [days |-> Max(0, Val(end) - Val(start)) \div MIN_SPAN_MS, lessMs |-> 0]

DisplayDuration(e) == DurationOf(e, eventStartDate(e), eventEndDate(e))

\* duration / (windowDays days) < hundredths / 100, for windowDays > 0.
BelowFractionBy(duration, excess) == excess > 0 \/ (excess = 0 /\ duration.lessMs > 0)

BelowFraction(duration, windowDays, hundredths) ==
    BelowFractionBy(duration, hundredths * windowDays - 100 * duration.days)

\* The score of an event, 0 without one.
ScoreOf(e) == IF e.importance_score = Null THEN 0 ELSE Val(e.importance_score)

\* The score of e is strictly below the median score of the admitted
\* events: at most half of them, rounded down, have a score up to that of e.
BelowMedian(e, admitted) ==
    Cardinality({ j \in 1..Len(admitted) : ScoreOf(admitted[j]) <= ScoreOf(e) })
        <= Len(admitted) \div 2

\* C18: for a window of positive span and a non-empty admitted set, the
\* label of an item is hidden exactly when the display duration of its event
\* over the visible span is strictly below shortEventFraction and its score,
\* 0 without one, is strictly below the median score of the admitted set.
C18_LabelHiddenIff ==
    (PipelineDone /\ PositiveWindow /\ Len(selected) > 0) =>
        \A i \in 1..Len(items) :
            items[i].content = <<>> <=>
                /\ BelowFraction(DisplayDuration(EventOfItem(items[i])), WindowDays,
                                 FractionHundredths)
                /\ BelowMedian(EventOfItem(items[i]), selected)

\* Three points in time with the scores 0.9, 0.5 and 0.1 are admitted into a
\* window of 1000 days with shortEventFraction 0.05, and the label of the
\* third alone is hidden.
C18_Witness ==
    /\ PipelineDone
    /\ ~IsNull(visibleWindow) /\ WindowDays = 1000
    /\ FractionHundredths = 5
    /\ Len(selected) = 3 /\ Len(items) = 3
    /\ \A i \in 1..3 : DisplayDuration(selected[i]) = [days |-> 1, lessMs |-> 1]
    /\ <<ScoreOf(selected[1]), ScoreOf(selected[2]), ScoreOf(selected[3])>> = <<9, 5, 1>>
    /\ items[1].content = <<"A">>
    /\ items[2].content = <<"B">>
    /\ items[3].content = <<>>

\* The label of an event: its title, or else its wikipedia_title, without
\* the white space around it, or else "Event " and the id.
Blank(text) == text = Null \/ \A i \in 1..Len(Val(text)) : Val(text)[i] \in {" ", "\t", "\n"}

LabelText(e) ==
    IF ~Blank(e.title) THEN Trim(Val(e.title))
    ELSE IF ~Blank(e.wikipedia_title) THEN Trim(Val(e.wikipedia_title))
    ELSE <<"E", "v", "e", "n", "t", " ">> \o NumberToString(e.id)

NoPositiveWindow == IsNull(visibleWindow) \/ WindowDays <= 0

\* C19: without a visible window, or with one of zero or negative width,
\* the content of every item is the label of its event, and it is not empty.
C19_NoWindowNoSuppression ==
    (PipelineDone /\ NoPositiveWindow) =>
        \A i \in 1..Len(items) :
            /\ items[i].content # <<>>
            /\ items[i].content = LabelText(EventOfItem(items[i]))

\* A window of no positive width and shortEventFraction 1: an item of an
\* event with a score below the median of the admitted events carries the
\* label "Event" and its id.
C19_Witness ==
    /\ PipelineDone
    /\ ~IsNull(visibleWindow) /\ WindowDays <= 0
    /\ FractionHundredths = 100
    /\ Len(items) >= 2
    /\ \E i \in 1..Len(items) :
          /\ items[i].content = <<"E", "v", "e", "n", "t", " ">> \o NumberToString(items[i].id)
          /\ BelowMedian(EventOfItem(items[i]), selected)

\* T23:59:59.999Z
EndOfDayTime ==
    <<"T", "2", "3", ":", "5", "9", ":", "5", "9", ".", "9", "9", "9", "Z">>

\* The item carries the end and is a range.
IsRangeTo(it, end) == it.type = "range" /\ "end" \in DOMAIN it /\ it.end = end

IsPoint(it) == it.type = "point" /\ "end" \notin DOMAIN it

\* Resolved dates are whole ticks: an end is later than the start by at
\* least 1000 ms when it is later by the ticks that hold 1000 ms.
PointOrRange(it, e, start, end) ==
    IF Extended(e, start, end)
    THEN IsRangeTo(it, SubSeq(it.start, 1, 10) \o EndOfDayTime)
    ELSE IF end # Null /\ Val(end) - Val(start) >= CeilDiv(MIN_RANGE_MS, TICK_MS)
    THEN IsRangeTo(it, ToISOString(DateAt(Val(end))))
    ELSE IsPoint(it)

EmptyPool == events = <<>>

ZeroWidth ==
    /\ ~IsNull(visibleWindow)
    /\ Val(visibleWindow).startMs = Val(visibleWindow).endMs
    /\ visibleSpanMs = Some(0)

AllZero ==
    /\ Len(events) >= 1
    /\ \A i \in 1..Len(events) : events[i].importance_score = Some(0)

Degenerate == op = "eventsToTimelineItems" /\ (EmptyPool \/ ZeroWidth \/ AllZero)

\* The events of the items, in the items' order.
ItemEvents == [i \in 1..Len(items) |-> EventOfItem(items[i])]

\* capacity = maxEventsForVisibleSpan(visibleSpanMs, minVisibleEvents), the
\* number of events without a visible span.
CapacityOfCall ==
    IF IsNull(visibleSpanMs) THEN Len(events)
    ELSE maxEventsForVisibleSpan(Val(visibleSpanMs),
                                 OptionOr(options, "minVisibleEvents",
                                          DEFAULT_MIN_VISIBLE_EVENTS))

\* C22: a call with degenerate inputs (no events; a window of no width
\* with a span of 0; scores all 0) returns a list of items: none for no
\* events, and always items of distinct events passed in, each overlapping
\* the window when there is one, no more of them than max(capacity, floor),
\* and no instant covered by more than maxOverlappingEvents of them.
C22_DegenerateInputs ==
    (Degenerate /\ done) =>
        /\ DOMAIN items = 1..Len(items)
        /\ \A i \in 1..Len(items) : items[i].type \in {"point", "range"}
        /\ EmptyPool => items = <<>>
        /\ IdsOf(items) \subseteq IdsOf(events)
        /\ Cardinality(IdsOf(items)) = Len(items)
        /\ ~IsNull(visibleWindow) =>
              \A i \in 1..Len(items) : InWindow(ItemEvents[i])
        /\ Len(items) <= Max(CapacityOfCall, Floor)
        /\ CoverageWithin(Intervals(ItemEvents), BoundK)

\* A window of no width with a visible span of 0 over events that all have
\* the score 0: two of them hold the window's instant and are returned.
C22_Witness ==
    /\ PipelineDone
    /\ ZeroWidth
    /\ AllZero
    /\ Len(items) = 2

----------------------------------------------------------------------------
(* Properties of the threshold and capacity functions, under SpecCurves *)

CurvesDone == op = "curves" /\ done

\* Both spans supplied (s1 <= s2 by construction).
TwoSpans == CurvesDone /\ ~IsNull(Val(curveIn).s1)

Span1 == Val(Val(curveIn).s1)

Span2 == Val(Val(curveIn).s2)

\* C4 (as stated): for all spans s1 <= s2 and the same minVisibleEvents,
\* maxEvents(s1) >= maxEvents(s2), at every breakpoint.
C4_CapacityNonIncreasing ==
    TwoSpans => Val(curveOut).maxEvents1 >= Val(curveOut).maxEvents2

\* C4 (amended): the capacity is non-increasing over the spans below 20
\* years, where it is at least 4, and equals minVisibleEvents from 20 years
\* on; so it is non-increasing across the 20-year breakpoint only when
\* minVisibleEvents <= 4.
C4_CapacityNonIncreasingBelow20Years ==
    TwoSpans =>
        /\ Span2 < 20 * YEAR_MS =>
              /\ Val(curveOut).maxEvents1 >= Val(curveOut).maxEvents2
              /\ Val(curveOut).maxEvents2 >= 4
        /\ Span2 >= 20 * YEAR_MS =>
              Val(curveOut).maxEvents2 = Val(curveIn).minVisibleEvents
        /\ (Span1 < 20 * YEAR_MS /\ Span2 >= 20 * YEAR_MS
              /\ Val(curveIn).minVisibleEvents <= 4) =>
              Val(curveOut).maxEvents1 >= Val(curveOut).maxEvents2

\* The capacity drops across the 5-year breakpoint.
C4_Witness ==
    /\ TwoSpans
    /\ Span1 = 5 * YEAR_MS - 1 /\ Span2 = 5 * YEAR_MS
    /\ Val(curveOut).maxEvents1 = 25
    /\ Val(curveOut).maxEvents2 = 15

\* C5: for all spans s1 <= s2, minImportance(s1) <= minImportance(s2).
C5_ThresholdNonDecreasing ==
    TwoSpans => Val(curveOut).minImportance1 <= Val(curveOut).minImportance2

\* Two spans between the focused and the maximum span, the threshold of the
\* wider one being higher.
C5_Witness ==
    /\ TwoSpans
    /\ FOCUSED_SPAN_MS < Span1 /\ Span1 < Span2 /\ Span2 < MAX_SPAN_MS
    /\ Val(curveOut).minImportance1 < Val(curveOut).minImportance2

ThresholdInRange(span, m) ==
    /\ 0 <= m /\ m <= Importance(8)
    /\ span <= FOCUSED_SPAN_MS => m = 0
    /\ span >= MAX_SPAN_MS => m = Importance(8)
    /\ (FOCUSED_SPAN_MS < span /\ span < MAX_SPAN_MS) => (0 < m /\ m < Importance(8))

\* C6: the threshold lies in [0, 0.8]: 0 up to the focused span (10 years),
\* 0.8 from the maximum span (100 years) on, strictly between for the spans
\* between, and 0 when no visible span is supplied.
C6_ThresholdRange ==
    CurvesDone =>
        /\ ThresholdInRange(Span2, Val(curveOut).minImportance2)
        /\ IF IsNull(Val(curveIn).s1)
           THEN Val(curveOut).minImportance1 = 0
           ELSE ThresholdInRange(Span1, Val(curveOut).minImportance1)

\* No first span supplied, and a second one a tick short of the maximum span.
C6_Witness ==
    /\ CurvesDone
    /\ IsNull(Val(curveIn).s1)
    /\ Val(curveOut).minImportance1 = 0
    /\ Span2 = MAX_SPAN_MS - 1
    /\ 0 < Val(curveOut).minImportance2
    /\ Val(curveOut).minImportance2 < Importance(8)

----------------------------------------------------------------------------
(* Properties of the temporal resolver, checked under SpecResolver *)

ExtentResolved == op = "eventExtent" /\ done

\* The end a caller uses: eventEndDate(event) ?? start.
RawEnd == Coalesce(endDate, startDate)

\* C7 (as stated): for every event with a resolvable extent, the pair
\* obtained from eventStartDate / eventEndDate satisfies
\* endInstant >= startInstant.
C7_RawExtentOrdered ==
    (ExtentResolved /\ ~IsNull(startDate)) => Val(RawEnd) >= Val(startDate)

\* C7 (amended): the extent timeRangeForEvent derives from that pair starts
\* at eventStartDate, ends at the later of eventStartDate and the raw end,
\* and so always satisfies end >= start; it exists exactly when the start
\* is resolvable.
C7_ClampedExtentOrdered ==
    ExtentResolved =>
        /\ IsNull(timeRange) <=> IsNull(startDate)
        /\ ~IsNull(timeRange) =>
              /\ Val(timeRange).start = Val(startDate)
              /\ Val(timeRange).end >= Val(timeRange).start
              /\ Val(timeRange).end >= Val(RawEnd)
              /\ Val(timeRange).end \in {Val(startDate), Val(RawEnd)}

\* An event whose raw end precedes its start, clamped by timeRangeForEvent.
C7_Witness ==
    /\ ExtentResolved
    /\ ~IsNull(startDate)
    /\ Val(RawEnd) < Val(startDate)
    /\ Val(timeRange).end = Val(startDate)

\* The rule for the resolved start_time s, end_time e and point_in_time p.
FallbackRule(s, e, p) ==
    IF HasValue(event.start_time) /\ HasValue(event.end_time)
    THEN startDate = s /\ endDate = e
    ELSE /\ startDate = (IF ~IsNull(s) THEN s ELSE IF ~IsNull(p) THEN p ELSE e)
         /\ endDate = (IF ~IsNull(e) THEN e ELSE IF ~IsNull(p) THEN p ELSE s)

\* C8: with both start_time and end_time present the extent is
\* (resolve(start_time), resolve(end_time)); otherwise the start is
\* resolve(start_time) ?? resolve(point_in_time) ?? resolve(end_time) and the
\* end is resolve(end_time) ?? resolve(point_in_time) ?? resolve(start_time).
C8_ExtentFallbackRule ==
    ExtentResolved =>
        FallbackRule(parseEventTime(event.start_time),
                     parseEventTime(event.end_time),
                     parseEventTime(event.point_in_time))

\* An event with start_time and point_in_time but no end_time: its end is
\* the point in time, which differs from its start.
C8_Witness ==
    /\ ExtentResolved
    /\ HasValue(event.start_time) /\ HasValue(event.point_in_time)
    /\ IsNull(event.end_time)
    /\ ~IsNull(startDate) /\ ~IsNull(endDate)
    /\ endDate = parseEventTime(event.point_in_time)
    /\ endDate # startDate

\* Proleptic Gregorian calendar: the days of month m (1..12) of year y.
DaysInMonth(y, m) ==
    IF m = 2
    THEN (IF (y % 4 = 0 /\ y % 100 # 0) \/ y % 400 = 0 THEN 29 ELSE 28)
    ELSE IF m \in {4, 6, 9, 11} THEN 30 ELSE 31

\* A year alone, a year and a month 01..12, or a date of the calendar.
IsCalendarDate(y, m, d) ==
    \/ m = 0
    \/ m \in 1..12 /\ (d = 0 \/ (d >= 1 /\ d <= DaysInMonth(y, m)))

SignedYear(sign, year) == IF sign = <<>> THEN year.n ELSE 0 - year.n

\* C10: a value [sign]YYYY[-MM[-DD]] (1-4 year digits, ASCII or Unicode
\* minus, MM and DD a month and a day of the calendar), followed or not by a
\* time of day, resolves to midnight UTC of that day of exactly the signed
\* year; an absent month is January, an absent day is the 1st.
C10_SignedYearKept ==
    (op = "parseEventTime" /\ done) =>
        \A sg \in SignForms, y \in YearForms, m \in MonthForms, d \in DayForms,
           sf \in SuffixForms :
            ( /\ timeValue = Some([value |-> DateString(sg, y, m, d, sf)])
              /\ IsCalendarDate(SignedYear(sg, y), m, d) )
            => /\ ~IsNull(parsed)
               /\ GetUTCFullYear(Val(parsed)) = SignedYear(sg, y)
               /\ GetUTCMonth(Val(parsed)) = (IF m = 0 THEN 0 ELSE m - 1)
               /\ GetUTCDate(Val(parsed)) = (IF m = 0 \/ d = 0 THEN 1 ELSE d)

\* The value is the ISO string of the date y-m-d with the time of day sf.
IsIsoDateTime(y, m, d, sf) ==
    /\ Len(y.text) = 4 /\ m # 0 /\ d # 0
    /\ IsCalendarDate(y.n, m, d)
    /\ timeValue = Some([value |-> DateString(<<>>, y, m, d, sf)])

\* C11 (as stated): an ISO string with a date and a time of day resolves to
\* the instant it denotes: converting the instant back to ISO reproduces
\* the input.
C11_IsoRoundTrip ==
    (op = "parseEventTime" /\ done) =>
        \A y \in YearForms, m \in MonthForms, d \in DayForms, sf \in IsoTimes :
            IsIsoDateTime(y, m, d, sf)
            => /\ ~IsNull(parsed)
               /\ ToISOString(DateAt(Val(parsed))) = Val(timeValue).value

\* C11 (amended): an ISO string with a date and a time of day resolves to
\* midnight UTC of its date: converting the instant back to ISO reproduces
\* the date and gives the time of day 00:00:00.000, so it reproduces the
\* input only when the input's time of day is midnight.
C11_IsoDateRoundTrip ==
    (op = "parseEventTime" /\ done) =>
        \A y \in YearForms, m \in MonthForms, d \in DayForms, sf \in IsoTimes :
            IsIsoDateTime(y, m, d, sf)
            => /\ ~IsNull(parsed)
               /\ ToISOString(DateAt(Val(parsed)))
                     = DateString(<<>>, y, m, d, IsoMidnight)

\* 1943-02-28T12:00:00.000Z resolved to 1943-02-28T00:00:00.000Z.
C11_Witness ==
    /\ op = "parseEventTime" /\ done
    /\ timeValue = Some([value |-> <<"1", "9", "4", "3", "-", "0", "2", "-", "2", "8">>
                                      \o IsoNoon])
    /\ ~IsNull(parsed)
    /\ ToISOString(DateAt(Val(parsed)))
          = <<"1", "9", "4", "3", "-", "0", "2", "-", "2", "8">> \o IsoMidnight

\* The value "-60" written with the Unicode minus resolved to the year -60.
C10_Witness ==
    /\ op = "parseEventTime" /\ done
    /\ timeValue = Some([value |-> <<UNICODE_MINUS, "6", "0">>])
    /\ ~IsNull(parsed)
    /\ GetUTCFullYear(Val(parsed)) = 0 - 60
    /\ GetUTCMonth(Val(parsed)) = 0
    /\ GetUTCDate(Val(parsed)) = 1

====
